---------------------------- MODULE Spec2Model ----------------------------
(***************************************************************************)
(* Shop manager: the natural-language sales query of the HTTP front-end    *)
(* (parseSalesQuery and POST /api/query), the weekly-sales report, the     *)
(* product writes that change the catalog, and the products table they     *)
(* share.                                                                  *)
(*                                                                         *)
(* Texts are TLA+ strings, handled character by character with Len,        *)
(* SubSeq and \o.  The REAL columns cost and sales_per_day are modelled    *)
(* exactly: cost in cents, sales_per_day in units, both integers.          *)
(***************************************************************************)
EXTENDS Integers, Sequences, FiniteSets, TLC

VARIABLES
    tableExists,  \* the products table has been created in shop.db
    table,        \* the rows of products, a set of records (the catalog)
    seq,          \* sqlite_sequence: the largest id AUTOINCREMENT has given
    lastRowid,    \* last_insert_rowid() of the HTTP server's connection
    request,      \* the request the HTTP server handled last (or holds)
    response,     \* its response; NoResponse while it is not answered
    dbLog,        \* the SQL statements the handler of request has issued
    fetched,      \* the rows its SELECT returned, in the order returned
    calls         \* the requests in flight together, each at an await

vars == <<tableExists, table, seq, lastRowid, request, response, dbLog, fetched,
          calls>>

-----------------------------------------------------------------------------
(* Bounds of the model *)

\* A question is at most MaxWords vocabulary entries long.
MaxWords == 2
\* Rows are inserted while at most MaxAdds were added to the six samples.
MaxAdds == 1

-----------------------------------------------------------------------------
(* Characters and strings *)

\* The characters product names are compared on, in ASCII order.
ASCII == "\t %ABCDEFGHIJKLMNOPQRSTUVWXYZ_abcdefghijklmnopqrstuvwxyz"

CharAt(s, i) == SubSeq(s, i, i)

Chars == {CharAt(ASCII, i) : i \in 1..Len(ASCII)}

Code == [c \in Chars |-> CHOOSE i \in 1..Len(ASCII) : CharAt(ASCII, i) = c]

UpperChars == {CharAt(ASCII, i) : i \in 4..29}

\* The lower-case letter sits 27 places after its upper-case letter.
LowerChar == [c \in Chars |->
                 IF c \in UpperChars THEN CharAt(ASCII, Code[c] + 27) ELSE c]

\* What \s of a regular expression and String.prototype.trim take as blank.
Whitespace == {" ", "\t"}

RECURSIVE toLowerCase(_)
toLowerCase(s) ==
    IF s = "" THEN ""
    ELSE LET c == Head(s)
         IN  (IF c \in Chars THEN LowerChar[c] ELSE c) \o toLowerCase(Tail(s))

RECURSIVE trimStart(_)
trimStart(s) ==
    IF s # "" /\ Head(s) \in Whitespace THEN trimStart(Tail(s)) ELSE s

RECURSIVE trimEnd(_)
trimEnd(s) ==
    IF s # "" /\ CharAt(s, Len(s)) \in Whitespace
    THEN trimEnd(SubSeq(s, 1, Len(s) - 1))
    ELSE s

\* A faulty trim that leaves the blanks in place.
trimNothing(s) == s

trim(s) == trimEnd(trimStart(s))

\* String.prototype.includes
includes(s, w) ==
    \E i \in 1..(Len(s) - Len(w) + 1) : SubSeq(s, i, i + Len(w) - 1) = w

-----------------------------------------------------------------------------
(* JavaScript values of a request *)

Undefined == [kind |-> "undefined"]
Null == [kind |-> "null"]
Str(s) == [kind |-> "string", text |-> s]

\* String(query || ""): undefined, null and "" are falsy.
StringOrEmpty(query) ==
    IF query.kind = "string" /\ query.text # "" THEN query.text ELSE ""

\* An object without keys, such as the scope of an unscoped question.
EmptyObject == [k \in {} |-> ""]

\* if (o.k): the key is there and its string is not empty.
Truthy(o, k) == k \in DOMAIN o /\ o[k] # ""

-----------------------------------------------------------------------------
(* parseSalesQuery *)

\* A faulty normalisation that keeps the blanks of a category keyword.
keepWhitespace(s) == s

\* cat.replace(/\s+/g, "_"): each run of blanks becomes one underscore.
RECURSIVE replaceWhitespaceRuns(_)
replaceWhitespaceRuns(s) ==
    IF s = "" THEN ""
    ELSE IF Head(s) \in Whitespace
         THEN "_" \o replaceWhitespaceRuns(trimStart(s))
         ELSE Head(s) \o replaceWhitespaceRuns(Tail(s))

\* A faulty period rule: the week test comes last and overrides the others.
queryPeriodWeekLast(q) ==
    IF includes(q, "week") THEN "week" ELSE "day"

\* Determine time window: three ifs, a later one overrides an earlier one.
queryPeriod(q) ==
    LET p1 == IF includes(q, "week") \/ includes(q, "weekly")
                 \/ includes(q, "this week")
              THEN "week" ELSE "day"
        p2 == IF includes(q, "today") THEN "day" ELSE p1
    IN  IF includes(q, "per day") \/ includes(q, "daily") THEN "day" ELSE p2

categoryMap ==
    <<"shampoo", "conditioner", "gucci", "victoria secret", "victoria_secret",
      "body lotion", "body_lotion", "moisturizer">>

\* The alternatives of the nameHint regular expression, in its order; the
\* words of one alternative are separated by \s+.
stopPhrases ==
    << <<"sales">>, <<"sale">>, <<"revenue">>, <<"for">>, <<"of">>,
       <<"what">>, <<"show">>, <<"get">>, <<"how", "many">>,
       <<"how", "much">>, <<"today">>, <<"weekly">>, <<"this", "week">>,
       <<"per", "day">> >>

\* The first position from pos on that holds no blank.
RECURSIVE skipWhitespace(_, _)
skipWhitespace(s, pos) ==
    IF pos <= Len(s) /\ CharAt(s, pos) \in Whitespace
    THEN skipWhitespace(s, pos + 1)
    ELSE pos

\* One alternative tried at pos: the position after its match, 0 for none.
RECURSIVE matchWords(_, _, _, _)
matchWords(words, k, s, pos) ==
    LET w == words[k]
        e == pos + Len(w)
    IN  IF e - 1 > Len(s) \/ SubSeq(s, pos, e - 1) # w THEN 0
        ELSE IF k = Len(words) THEN e
        ELSE LET f == skipWhitespace(s, e)
             IN  IF f = e THEN 0 ELSE matchWords(words, k + 1, s, f)

\* The regular expression tried at pos: its alternatives from the a-th on,
\* in their order; the first that matches decides.  The position after the
\* match, 0 when none matches.
RECURSIVE matchStopPhrase(_, _, _)
matchStopPhrase(s, pos, a) ==
    IF a > Len(stopPhrases) THEN 0
    ELSE LET e == matchWords(stopPhrases[a], 1, s, pos)
         IN  IF e # 0 THEN e ELSE matchStopPhrase(s, pos, a + 1)

\* A faulty replace without the g flag: only the first match is dropped.
RECURSIVE removeFirstStopPhrase(_, _)
removeFirstStopPhrase(s, pos) ==
    IF pos > Len(s) THEN ""
    ELSE LET e == matchStopPhrase(s, pos, 1)
         IN  IF e # 0 THEN SubSeq(s, e, Len(s))
             ELSE CharAt(s, pos) \o removeFirstStopPhrase(s, pos + 1)

\* q.replace(/sales|sale|...|per\s+day/gi, ""): one pass from the left;
\* a match is dropped and the scan goes on behind it.
RECURSIVE removeStopPhrases(_, _)
removeStopPhrases(s, pos) ==
    IF pos > Len(s) THEN ""
    ELSE LET e == matchStopPhrase(s, pos, 1)
         IN  IF e # 0 THEN removeStopPhrases(s, e)
             ELSE CharAt(s, pos) \o removeStopPhrases(s, pos + 1)

nameHint(q) == trim(removeStopPhrases(q, 1))

\* The three ifs on the type keywords: hair, then perfume, then skin.
typeScope(q) ==
    IF includes(q, "hair") THEN [type |-> "hair"]
    ELSE IF includes(q, "perfume") THEN [type |-> "perfume"]
    ELSE IF includes(q, "skin") THEN [type |-> "skin"]
    ELSE EmptyObject

\* A faulty category step that matches no keyword.
noCategoryScope(q) == EmptyObject

\* The for loop over categoryMap: the first entry q includes.
categoryScope(q) ==
    LET hits == {i \in 1..Len(categoryMap) : includes(q, categoryMap[i])}
    IN  IF hits = {} THEN EmptyObject
        ELSE LET i == CHOOSE h \in hits : \A g \in hits : h <= g
             IN  [category |-> replaceWhitespaceRuns(categoryMap[i])]

\* The name fallback: the hint when one is left, else no scope.
nameScope(q) ==
    LET hint == nameHint(q)
    IN  IF hint # "" THEN [name |-> hint] ELSE EmptyObject

\* A faulty parse that tries the category keywords before the type keywords.
parseCategoryFirst(query) ==
    LET q == trim(toLowerCase(StringOrEmpty(query)))
        period == queryPeriod(q)
        type == typeScope(q)
        category == categoryScope(q)
    IN  IF q = "" THEN [error |-> "Empty query"]
        ELSE IF category # EmptyObject
             THEN [period |-> period, scope |-> category]
        ELSE IF type # EmptyObject THEN [period |-> period, scope |-> type]
        ELSE [period |-> period, scope |-> nameScope(q)]

\* A faulty parse whose ifs are not chained: a type and a category keyword
\* both leave their key in the scope.
parseComposite(query) ==
    LET q == trim(toLowerCase(StringOrEmpty(query)))
        period == queryPeriod(q)
        type == typeScope(q)
        category == categoryScope(q)
    IN  IF q = "" THEN [error |-> "Empty query"]
        ELSE IF type # EmptyObject \/ category # EmptyObject
             THEN [period |-> period, scope |-> type @@ category]
        ELSE [period |-> period, scope |-> nameScope(q)]

parseSalesQuery(query) ==
    LET q == trim(toLowerCase(StringOrEmpty(query)))
        period == queryPeriod(q)
        type == typeScope(q)
        category == categoryScope(q)
    IN  IF q = "" THEN [error |-> "Empty query"]
        ELSE IF type # EmptyObject THEN [period |-> period, scope |-> type]
        ELSE IF category # EmptyObject
             THEN [period |-> period, scope |-> category]
        ELSE [period |-> period, scope |-> nameScope(q)]

-----------------------------------------------------------------------------
(* The products table and the SQL the handlers run on it *)

Row(id, name, type, category, cost, sales_per_day) ==
    [id |-> id, name |-> name, type |-> type, category |-> category,
     cost |-> cost, sales_per_day |-> sales_per_day]

\* Faulty sample data: the costs without their cents.
sampleProductsWholeUnits ==
    << [name |-> "Shampoo Pro", type |-> "hair", category |-> "shampoo",
        cost |-> 1200, sales_per_day |-> 15],
       [name |-> "Conditioner Plus", type |-> "hair",
        category |-> "conditioner", cost |-> 1400, sales_per_day |-> 12],
       [name |-> "Gucci Bloom", type |-> "perfume", category |-> "gucci",
        cost |-> 8900, sales_per_day |-> 8],
       [name |-> "Victoria Secret Angel", type |-> "perfume",
        category |-> "victoria_secret", cost |-> 6500, sales_per_day |-> 10],
       [name |-> "Body Lotion Smooth", type |-> "skin",
        category |-> "body_lotion", cost |-> 1800, sales_per_day |-> 20],
       [name |-> "Moisturizer Daily", type |-> "skin",
        category |-> "moisturizer", cost |-> 2400, sales_per_day |-> 18] >>

\* sampleProducts of main(), in insertion order.
sampleProducts ==
    << [name |-> "Shampoo Pro", type |-> "hair", category |-> "shampoo",
        cost |-> 1299, sales_per_day |-> 15],
       [name |-> "Conditioner Plus", type |-> "hair",
        category |-> "conditioner", cost |-> 1499, sales_per_day |-> 12],
       [name |-> "Gucci Bloom", type |-> "perfume", category |-> "gucci",
        cost |-> 8999, sales_per_day |-> 8],
       [name |-> "Victoria Secret Angel", type |-> "perfume",
        category |-> "victoria_secret", cost |-> 6599, sales_per_day |-> 10],
       [name |-> "Body Lotion Smooth", type |-> "skin",
        category |-> "body_lotion", cost |-> 1899, sales_per_day |-> 20],
       [name |-> "Moisturizer Daily", type |-> "skin",
        category |-> "moisturizer", cost |-> 2499, sales_per_day |-> 18] >>

\* A faulty INSERT that gives out the latest id once more.
insertRowLatestId(last, p) ==
    Row(last, p.name, p.type, p.category, p.cost, p.sales_per_day)

\* A faulty INSERT that stores no cost.
insertRowWithoutCost(last, p) ==
    Row(last + 1, p.name, p.type, p.category, 0, p.sales_per_day)

\* INSERT INTO products (name, type, category, cost, sales_per_day): the
\* row gets the id after the largest one AUTOINCREMENT has given so far.
insertRow(last, p) ==
    Row(last + 1, p.name, p.type, p.category, p.cost, p.sales_per_day)

\* The LIKE operator of SQLite: % stands for any text, _ for any one
\* character, and letters match without regard to case.
RECURSIVE likeFolded(_, _)
likeFolded(pattern, s) ==
    IF pattern = "" THEN s = ""
    ELSE IF Head(pattern) = "%"
         THEN \/ likeFolded(Tail(pattern), s)
              \/ (s # "" /\ likeFolded(pattern, Tail(s)))
    ELSE IF s = "" THEN FALSE
    ELSE IF Head(pattern) = "_" THEN likeFolded(Tail(pattern), Tail(s))
    ELSE Head(pattern) = Head(s) /\ likeFolded(Tail(pattern), Tail(s))

like(pattern, s) == likeFolded(toLowerCase(pattern), toLowerCase(s))

\* TEXT compared under the BINARY collation: character codes decide.
RECURSIVE textLess(_, _)
textLess(a, b) ==
    IF b = "" THEN FALSE
    ELSE IF a = "" THEN TRUE
    ELSE IF Head(a) # Head(b) THEN Code[Head(a)] < Code[Head(b)]
    ELSE textLess(Tail(a), Tail(b))

\* A text bound to the INTEGER column id is read as the number it spells.
idOfText(t) ==
    LET digits == "123456789"
        hits == {i \in 1..Len(digits) : CharAt(digits, i) = t}
    IN  IF hits = {} THEN 0 ELSE CHOOSE i \in hits : TRUE

\* One clause of a WHERE with the parameter bound to its question mark.
clauseHolds(row, clause, param) ==
    CASE clause = " AND type = ?" -> row.type = param
      [] clause = " AND category = ?" -> row.category = param
      [] clause = " AND name LIKE ?" -> like(param, row.name)
      [] clause = "WHERE type = ?" -> row.type = param
      [] clause = "WHERE id = ?" -> row.id = idOfText(param)

\* A faulty SELECT that takes no notice of its WHERE.
selectedUnfiltered(rows, stmt) == rows

selected(rows, stmt) ==
    {r \in rows : \A i \in 1..Len(stmt.where) :
                      clauseHolds(r, stmt.where[i], stmt.params[i])}

\* r comes strictly before t under the ORDER BY of the statement.
before(r, t, orderBy) ==
    CASE orderBy = "name" -> textLess(r.name, t.name)
      [] orderBy = "weekly_sales DESC" ->
             r.sales_per_day * 7 > t.sales_per_day * 7
      [] orderBy = "" -> FALSE

\* Every order the rows can come in: rows the ORDER BY does not tell apart
\* come in any order.
RECURSIVE ordered(_, _)
ordered(rows, orderBy) ==
    IF rows = {} THEN {<<>>}
    ELSE LET first == {r \in rows : \A t \in rows : ~before(t, r, orderBy)}
         IN  UNION {{<<r>> \o rest : rest \in ordered(rows \ {r}, orderBy)} :
                       r \in first}

\* dbAll(query, params): the result sets the SELECT can give.
dbAll(stmt) == ordered(selected(table, stmt), stmt.orderBy)

\* dbGet("SELECT * FROM products WHERE id = ?", [id]): the rows with the id.
dbGet(id) == {r \in table : r.id = id}

noSuchTable ==
    [status |-> 500,
     body |-> [success |-> FALSE,
               error |-> "SQLITE_ERROR: no such table: products"]]

-----------------------------------------------------------------------------
(* POST /api/query *)

\* A faulty sum that leaves out the last element.
RECURSIVE reduceWithoutLast(_, _)
reduceWithoutLast(results, key) ==
    IF Len(results) <= 1 THEN 0
    ELSE reduceWithoutLast(SubSeq(results, 1, Len(results) - 1), key)
         + results[Len(results) - 1][key]

\* results.reduce((s, r) => s + r[key], 0)
RECURSIVE reduce(_, _)
reduce(results, key) ==
    IF results = <<>> THEN 0
    ELSE reduce(SubSeq(results, 1, Len(results) - 1), key)
         + results[Len(results)][key]

\* A faulty line item whose revenue is always that of one day.
lineItemDailyRevenue(p, period) ==
    LET daily == p.sales_per_day
        sales == IF period = "week" THEN daily * 7 ELSE daily
    IN  [id |-> p.id, name |-> p.name, type |-> p.type,
         category |-> p.category, cost |-> p.cost, sales |-> sales,
         revenue |-> daily * p.cost, period |-> period]

\* The body of products.map(p => ...).
lineItem(p, period) ==
    LET daily == p.sales_per_day
        weekly == daily * 7
        sales == IF period = "week" THEN weekly ELSE daily
        revenue == sales * p.cost
    IN  [id |-> p.id, name |-> p.name, type |-> p.type,
         category |-> p.category, cost |-> p.cost, sales |-> sales,
         revenue |-> revenue, period |-> period]

\* The three ifs that build where and params from the scope.
queryStatement(scope) ==
    LET w1 == IF Truthy(scope, "type") THEN <<" AND type = ?">> ELSE <<>>
        p1 == IF Truthy(scope, "type") THEN <<scope.type>> ELSE <<>>
        w2 == IF Truthy(scope, "category")
              THEN <<" AND category = ?">> ELSE <<>>
        p2 == IF Truthy(scope, "category") THEN <<scope.category>> ELSE <<>>
        w3 == IF Truthy(scope, "name") THEN <<" AND name LIKE ?">> ELSE <<>>
        p3 == IF Truthy(scope, "name")
              THEN <<"%" \o scope.name \o "%">> ELSE <<>>
    IN  [where |-> w1 \o w2 \o w3, params |-> p1 \o p2 \o p3,
         orderBy |-> "name"]

\* A faulty response that reports an empty selection as not found.
queryResponseNotFound(parsed, products) ==
    IF products = <<>>
    THEN [status |-> 404,
          body |-> [success |-> FALSE, error |-> "No products found"]]
    ELSE LET results == [i \in 1..Len(products) |->
                            lineItem(products[i], parsed.period)]
         IN  [status |-> 200,
              body |-> [success |-> TRUE,
                        interpreted |-> [period |-> parsed.period,
                                         scope |-> parsed.scope],
                        totals |-> [sales |-> reduce(results, "sales"),
                                    revenue |-> reduce(results, "revenue")],
                        items |-> results]]

queryResponse(parsed, products) ==
    LET results == [i \in 1..Len(products) |->
                       lineItem(products[i], parsed.period)]
        totalSales == reduce(results, "sales")
        totalRevenue == reduce(results, "revenue")
    IN  [status |-> 200,
         body |-> [success |-> TRUE,
                   interpreted |-> [period |-> parsed.period,
                                    scope |-> parsed.scope],
                   totals |-> [sales |-> totalSales,
                               revenue |-> totalRevenue],
                   items |-> results]]

\* The handler; parsed is parseSalesQuery(question), its second statement.
HttpQuery(question, parsed) ==
    /\ request' = [op |-> "POST /api/query", question |-> question]
    /\ IF "error" \in DOMAIN parsed
       THEN /\ response' = [status |-> 400,
                            body |-> [success |-> FALSE,
                                      error |-> parsed.error]]
            /\ dbLog' = <<>>
            /\ fetched' = <<>>
       ELSE LET stmt == queryStatement(parsed.scope)
            IN  /\ dbLog' = <<stmt>>
                /\ IF ~tableExists
                   THEN response' = noSuchTable /\ fetched' = <<>>
                   ELSE \E products \in dbAll(stmt) :
                           /\ fetched' = products
                           /\ response' = queryResponse(parsed, products)
    /\ UNCHANGED <<tableExists, table, seq, lastRowid, calls>>

-----------------------------------------------------------------------------
(* GET /api/sales/weekly *)

IsSet(v) == v.kind = "string" /\ v.text # ""

\* The select list of the three weekly-sales statements.
weeklyRow(r) ==
    [id |-> r.id, name |-> r.name, type |-> r.type, category |-> r.category,
     sales_per_day |-> r.sales_per_day, weekly_sales |-> r.sales_per_day * 7,
     cost |-> r.cost, weekly_revenue |-> r.sales_per_day * 7 * r.cost]

weeklyStatement(type, product_id) ==
    IF IsSet(product_id)
    THEN [where |-> <<"WHERE id = ?">>, params |-> <<product_id.text>>,
          orderBy |-> ""]
    ELSE IF IsSet(type)
    THEN [where |-> <<"WHERE type = ?">>, params |-> <<type.text>>,
          orderBy |-> "weekly_sales DESC"]
    ELSE [where |-> <<>>, params |-> <<>>, orderBy |-> "weekly_sales DESC"]

weeklyResponse(sales) ==
    [status |-> 200,
     body |-> [success |-> TRUE,
               total_weekly_sales |-> reduce(sales, "weekly_sales"),
               total_weekly_revenue |-> reduce(sales, "weekly_revenue"),
               products |-> sales]]

HttpWeeklySales(type, product_id) ==
    LET stmt == weeklyStatement(type, product_id)
    IN  /\ request' = [op |-> "GET /api/sales/weekly", type |-> type,
                       product_id |-> product_id]
        /\ dbLog' = <<stmt>>
        /\ IF ~tableExists
           THEN response' = noSuchTable /\ fetched' = <<>>
           ELSE \E rows \in dbAll(stmt) :
                   LET sales == [i \in 1..Len(rows) |-> weeklyRow(rows[i])]
                   IN  /\ fetched' = sales
                       /\ response' = weeklyResponse(sales)
        /\ UNCHANGED <<tableExists, table, seq, lastRowid, calls>>

-----------------------------------------------------------------------------
(* POST /api/products and DELETE /api/products/:id *)

\* A faulty test that takes a cost of 0 and daily sales of 0 for missing.
missingOrZeroFields(body) ==
    \/ ~Truthy(body, "name")
    \/ ~Truthy(body, "type")
    \/ ~Truthy(body, "category")
    \/ "cost" \notin DOMAIN body \/ body.cost = 0
    \/ "sales_per_day" \notin DOMAIN body \/ body.sales_per_day = 0

\* !name || !type || !category || cost === undefined || ...
missingRequiredFields(body) ==
    \/ ~Truthy(body, "name")
    \/ ~Truthy(body, "type")
    \/ ~Truthy(body, "category")
    \/ "cost" \notin DOMAIN body
    \/ "sales_per_day" \notin DOMAIN body

HttpAddProduct(body) ==
    /\ request' = [op |-> "POST /api/products", body |-> body]
    /\ fetched' = <<>>
    /\ IF missingRequiredFields(body)
       THEN /\ response' =
                  [status |-> 400,
                   body |-> [success |-> FALSE,
                             error |-> "Missing required fields: name, type, category, cost, sales_per_day"]]
            /\ dbLog' = <<>>
            /\ UNCHANGED <<table, seq, lastRowid>>
       ELSE IF ~tableExists
       THEN /\ response' = noSuchTable
            /\ dbLog' = <<"INSERT INTO products">>
            /\ UNCHANGED <<table, seq, lastRowid>>
       ELSE /\ seq < Len(sampleProducts) + MaxAdds
            /\ table' = table \cup {insertRow(seq, body)}
            /\ seq' = seq + 1
            /\ lastRowid' = seq + 1
            /\ dbLog' = <<"INSERT INTO products",
                          "SELECT * FROM products WHERE id = last_insert_rowid()">>
            /\ \E newProduct \in {r \in table' : r.id = lastRowid'} :
                  response' = [status |-> 200,
                               body |-> [success |-> TRUE,
                                         message |-> "Product added successfully",
                                         product |-> newProduct]]
    /\ UNCHANGED <<tableExists, calls>>

HttpDeleteProduct(id) ==
    /\ request' = [op |-> "DELETE /api/products/:id", id |-> id]
    /\ fetched' = <<>>
    /\ IF ~tableExists
       THEN /\ response' = noSuchTable
            /\ dbLog' = <<"SELECT * FROM products WHERE id = ?">>
            /\ UNCHANGED table
       ELSE IF dbGet(idOfText(id)) = {}
       THEN /\ response' = [status |-> 404,
                            body |-> [success |-> FALSE,
                                      error |-> "Product not found"]]
            /\ dbLog' = <<"SELECT * FROM products WHERE id = ?">>
            /\ UNCHANGED table
       ELSE \E product \in dbGet(idOfText(id)) :
               /\ table' = {r \in table : r.id # idOfText(id)}
               /\ dbLog' = <<"SELECT * FROM products WHERE id = ?",
                             "DELETE FROM products WHERE id = ?">>
               /\ response' = [status |-> 200,
                               body |-> [success |-> TRUE,
                                         message |-> "Product deleted successfully",
                                         deleted_product |-> product]]
    /\ UNCHANGED <<tableExists, seq, lastRowid, calls>>

-----------------------------------------------------------------------------
(* main() of the tool server: schema creation and sample data *)

\* The for loop over sampleProducts: one INSERT each, ids in sequence.
seededRows(last) ==
    {insertRow(last + i - 1, sampleProducts[i]) : i \in 1..Len(sampleProducts)}

\* A faulty start that inserts the samples whatever the table holds.
mainSeedsAlways(cap) ==
    /\ tableExists' = TRUE
    /\ seq + Len(sampleProducts) <= cap
    /\ table' = table \cup seededRows(seq)
    /\ seq' = seq + Len(sampleProducts)
    /\ UNCHANGED <<lastRowid, request, response, dbLog, fetched, calls>>

\* main, up to server.connect: the table is created if it is not there,
\* and the samples are inserted when it holds no row; cap bounds the ids
\* given out.
main(cap) ==
    /\ tableExists' = TRUE
    /\ IF Cardinality(table) = 0
       THEN /\ seq + Len(sampleProducts) <= cap
            /\ table' = seededRows(seq)
            /\ seq' = seq + Len(sampleProducts)
       ELSE UNCHANGED <<table, seq>>
    /\ UNCHANGED <<lastRowid, request, response, dbLog, fetched, calls>>

McpMain == main(Len(sampleProducts) + MaxAdds)

-----------------------------------------------------------------------------
(* Requests *)

NoRequest == [op |-> "none"]
NoResponse == [status |-> 0]

\* The questions the clients of the catalog specification ask.
SpecQuestions ==
    {Undefined, Str(""), Str("weekly sales for hair"),
     Str("perfume sales today"), Str("daily sales for shampoo"),
     Str("revenue of body lotion this week"), Str("weekly sales for bloom"),
     Str("show sales"), Str("weekly revenue"), Str("sales for toys"),
     Str("sales of c_nd this week")}

AddBodies ==
    {[name |-> "Premium Conditioner", type |-> "hair",
      category |-> "conditioner", cost |-> 1999, sales_per_day |-> 25],
     [name |-> "Gucci Bloom", type |-> "perfume", category |-> "gucci",
      cost |-> 0, sales_per_day |-> 8],
     [name |-> "", type |-> "skin", category |-> "moisturizer",
      cost |-> 2499, sales_per_day |-> 18],
     [name |-> "Body Wash", type |-> "skin", category |-> "body_wash",
      sales_per_day |-> 5]}

IdTexts == {CharAt("123456789", i) : i \in 1..(Len(sampleProducts) + MaxAdds + 1)}

WeeklyTypes == {Undefined, Str("hair"), Str("perfume"), Str("skin")}
WeeklyIds == {Undefined, Str("2"), Str("7")}

\* The words questions are made of: the keywords of parseSalesQuery, other
\* spellings of them, words that hold a stop-phrase only in part or only
\* once one is taken out, blanks, and a few sentences.
Vocabulary ==
    {"week", "weekly", "this week", "thisweek", "today", "per day",
     "per  day", "daily",
     "hair", "perfume", "skin",
     "shampoo", "conditioner", "gucci", "victoria secret", "victoria_secret",
     "body lotion", "body_lotion", "body\tlotion", "moisturizer",
     "sales", "sale", "revenue", "for", "of", "what", "show", "get",
     "how many", "how much", "how \tmuch",
     "soap", "fofor", "showhat", " ", "\t",
     "how much does Luxury Shampoo sell", "how much does Luxury soap sell",
     "what revenue for soap today"}

\* The words of a question, a blank between each two.
RECURSIVE join(_)
join(words) ==
    IF words = <<>> THEN ""
    ELSE IF Len(words) = 1 THEN words[1]
    ELSE words[1] \o " " \o join(Tail(words))

Questions ==
    {Undefined, Null} \cup
    {Str(join(words)) :
        words \in UNION {[1..n -> Vocabulary] : n \in 0..MaxWords}}

-----------------------------------------------------------------------------
(* The catalog specification: the tool server's start and the requests of  *)
(* the HTTP front-end, one handled after the other.                        *)

Init ==
    /\ tableExists = FALSE
    /\ table = {}
    /\ seq = 0
    /\ lastRowid = 0
    /\ request = NoRequest
    /\ response = NoResponse
    /\ dbLog = <<>>
    /\ fetched = <<>>
    /\ calls = <<>>

\* parseSalesQuery on each of SpecQuestions, worked out once.
interpreted == [question \in SpecQuestions |-> parseSalesQuery(question)]

Query ==
    \E question \in SpecQuestions :
        HttpQuery(question, interpreted[question])

WeeklySales ==
    \E type \in WeeklyTypes, product_id \in WeeklyIds :
        HttpWeeklySales(type, product_id)

AddProduct == \E body \in AddBodies : HttpAddProduct(body)

DeleteProduct == \E id \in IdTexts : HttpDeleteProduct(id)

Next == McpMain \/ Query \/ WeeklySales \/ AddProduct \/ DeleteProduct

Spec == Init /\ [][Next]_vars

-----------------------------------------------------------------------------
(* The interpreter specification: one question, drawn from Questions, put  *)
(* to POST /api/query on the freshly seeded catalog.                       *)

InitParse ==
    /\ tableExists = TRUE
    /\ table = seededRows(0)
    /\ seq = Len(sampleProducts)
    /\ lastRowid = 0
    /\ request \in {[op |-> "POST /api/query", question |-> q] : q \in Questions}
    /\ response = NoResponse
    /\ dbLog = <<>>
    /\ fetched = <<>>
    /\ calls = <<>>

Answer ==
    /\ response = NoResponse
    /\ request.op = "POST /api/query"
    /\ HttpQuery(request.question, parseSalesQuery(request.question))

NextParse == Answer

SpecParse == InitParse /\ [][NextParse]_vars

-----------------------------------------------------------------------------
(* GET /api/products *)

\* The three ifs that append a condition for each filter that is set.
listStatement(name, type, category) ==
    LET w1 == IF IsSet(name) THEN <<" AND name LIKE ?">> ELSE <<>>
        p1 == IF IsSet(name) THEN <<"%" \o name.text \o "%">> ELSE <<>>
        w2 == IF IsSet(type) THEN <<" AND type = ?">> ELSE <<>>
        p2 == IF IsSet(type) THEN <<type.text>> ELSE <<>>
        w3 == IF IsSet(category) THEN <<" AND category = ?">> ELSE <<>>
        p3 == IF IsSet(category) THEN <<category.text>> ELSE <<>>
    IN  [where |-> w1 \o w2 \o w3, params |-> p1 \o p2 \o p3,
         orderBy |-> "name"]

HttpListProducts(name, type, category) ==
    LET stmt == listStatement(name, type, category)
    IN  /\ request' = [op |-> "GET /api/products", name |-> name,
                       type |-> type, category |-> category]
        /\ dbLog' = <<stmt>>
        /\ IF ~tableExists
           THEN response' = noSuchTable /\ fetched' = <<>>
           ELSE \E products \in dbAll(stmt) :
                   /\ fetched' = products
                   /\ response' = [status |-> 200,
                                   body |-> [success |-> TRUE,
                                             count |-> Len(products),
                                             products |-> products]]
        /\ UNCHANGED <<tableExists, table, seq, lastRowid, calls>>

-----------------------------------------------------------------------------
(* GET /api/costs/average *)

RECURSIVE sumOf(_, _)
sumOf(rows, column) ==
    IF rows = {} THEN 0
    ELSE LET r == CHOOSE t \in rows : TRUE
         IN  r[column] + sumOf(rows \ {r}, column)

\* A faulty group that takes its statistics over all the rows.
typeGroupOfAllRows(rows, type) ==
    [type |-> type,
     product_count |-> Cardinality(rows),
     avg_cost |-> [sum |-> sumOf(rows, "cost"), count |-> Cardinality(rows)],
     min_cost |-> CHOOSE c \in {r.cost : r \in rows} :
                     \A r \in rows : c <= r.cost,
     max_cost |-> CHOOSE c \in {r.cost : r \in rows} :
                     \A r \in rows : c >= r.cost,
     total_daily_sales |-> sumOf(rows, "sales_per_day")]

\* One row of SELECT type, COUNT(*), AVG(cost), MIN(cost), MAX(cost),
\* SUM(sales_per_day) ... GROUP BY type, for the group of the given type.
\* AVG is the quotient of the sum and the count, kept as the two numbers.
typeGroup(rows, type) ==
    LET group == {r \in rows : r.type = type}
    IN  [type |-> type,
         product_count |-> Cardinality(group),
         avg_cost |-> [sum |-> sumOf(group, "cost"),
                       count |-> Cardinality(group)],
         min_cost |-> CHOOSE c \in {r.cost : r \in group} :
                         \A r \in group : c <= r.cost,
         max_cost |-> CHOOSE c \in {r.cost : r \in group} :
                         \A r \in group : c >= r.cost,
         total_daily_sales |-> sumOf(group, "sales_per_day")]

\* A faulty order of the groups: the types descending.
RECURSIVE typesDescending(_)
typesDescending(types) ==
    IF types = {} THEN <<>>
    ELSE LET greatest == CHOOSE t \in types :
                            \A u \in types : ~textLess(t, u)
         IN  <<greatest>> \o typesDescending(types \ {greatest})

\* ORDER BY type over the groups: the types of the rows, ascending.
RECURSIVE typesAscending(_)
typesAscending(types) ==
    IF types = {} THEN <<>>
    ELSE LET least == CHOOSE t \in types :
                         \A u \in types : ~textLess(u, t)
         IN  <<least>> \o typesAscending(types \ {least})

\* The result of the statistics statement on the rows.
averageCostsByType(rows) ==
    LET types == typesAscending({r.type : r \in rows})
    IN  [i \in 1..Len(types) |-> typeGroup(rows, types[i])]

HttpAverageCosts ==
    /\ request' = [op |-> "GET /api/costs/average"]
    /\ dbLog' = <<"SELECT type, ... FROM products GROUP BY type ORDER BY type">>
    /\ IF ~tableExists
       THEN response' = noSuchTable /\ fetched' = <<>>
       ELSE LET results == averageCostsByType(table)
            IN  /\ fetched' = results
                /\ response' = [status |-> 200,
                                body |-> [success |-> TRUE,
                                          average_costs_by_type |-> results]]
    /\ UNCHANGED <<tableExists, table, seq, lastRowid, calls>>

-----------------------------------------------------------------------------
(* PUT /api/products/:id *)

\* The columns the handler looks for in the body, in its order.
updatableColumns == <<"name", "type", "category", "cost", "sales_per_day">>

\* fields: one "column = ?" for each column the body defines.
updateFields(updates) ==
    SelectSeq(updatableColumns, LAMBDA c : c \in DOMAIN updates)

\* A faulty UPDATE that sets the first of its columns only.
updateRowFirstField(r, updates) ==
    [c \in DOMAIN r |->
        IF updateFields(updates) # <<>> /\ updateFields(updates)[1] = c
        THEN updates[c] ELSE r[c]]

\* UPDATE products SET ... on one row: the columns of fields take the
\* values of the body, the others stay.
updateRow(r, updates) ==
    [c \in DOMAIN r |->
        IF \E i \in 1..Len(updateFields(updates)) : updateFields(updates)[i] = c
        THEN updates[c] ELSE r[c]]

\* A faulty UPDATE without its WHERE: every row is changed.
updateEveryRow(rows, id, updates) ==
    {updateRow(r, updates) : r \in rows}

\* UPDATE products SET ... WHERE id = ? on the rows.
updateRows(rows, id, updates) ==
    {IF r.id = id THEN updateRow(r, updates) ELSE r : r \in rows}

HttpUpdateProduct(id, updates) ==
    /\ request' = [op |-> "PUT /api/products/:id", id |-> id,
                   body |-> updates]
    /\ fetched' = <<>>
    /\ IF Len(updateFields(updates)) = 0
       THEN /\ response' = [status |-> 400,
                            body |-> [success |-> FALSE,
                                      error |-> "No fields to update"]]
            /\ dbLog' = <<>>
            /\ UNCHANGED table
       ELSE IF ~tableExists
       THEN /\ response' = noSuchTable
            /\ dbLog' = <<"UPDATE products SET ... WHERE id = ?">>
            /\ UNCHANGED table
       ELSE /\ table' = updateRows(table, idOfText(id), updates)
            /\ dbLog' = <<"UPDATE products SET ... WHERE id = ?",
                          "SELECT * FROM products WHERE id = ?">>
            /\ LET updatedProduct == {r \in table' : r.id = idOfText(id)}
               IN  IF updatedProduct = {}
                   THEN response' = [status |-> 404,
                                     body |-> [success |-> FALSE,
                                               error |-> "Product not found"]]
                   ELSE \E product \in updatedProduct :
                           response' =
                               [status |-> 200,
                                body |-> [success |-> TRUE,
                                          message |-> "Product updated successfully",
                                          product |-> product]]
    /\ UNCHANGED <<tableExists, seq, lastRowid, calls>>

-----------------------------------------------------------------------------
(* The tool server: the CallToolRequestSchema handler.  A call works on   *)
(* the rows of the table and the last id AUTOINCREMENT has given, and     *)
(* gives the rows and the id it leaves with its reply; a SELECT that can  *)
(* come in several orders gives one outcome for each.                     *)

\* if (args.k) on a number: the key is there and is not 0.
NumberSet(args, k) == k \in DOMAIN args /\ args[k] # 0

toolReply(content) == [isError |-> FALSE, content |-> content]
toolError(message) == [isError |-> TRUE, content |-> [error |-> message]]

toolOutcome(rows, last, reply) ==
    [table |-> rows, seq |-> last, reply |-> reply]

\* case "get_products"
getProducts(args, rows, last) ==
    LET w1 == IF Truthy(args, "name") THEN <<" AND name LIKE ?">> ELSE <<>>
        p1 == IF Truthy(args, "name")
              THEN <<"%" \o args.name \o "%">> ELSE <<>>
        w2 == IF Truthy(args, "type") THEN <<" AND type = ?">> ELSE <<>>
        p2 == IF Truthy(args, "type") THEN <<args.type>> ELSE <<>>
        w3 == IF Truthy(args, "category")
              THEN <<" AND category = ?">> ELSE <<>>
        p3 == IF Truthy(args, "category") THEN <<args.category>> ELSE <<>>
        stmt == [where |-> w1 \o w2 \o w3, params |-> p1 \o p2 \o p3,
                 orderBy |-> "name"]
    IN  {toolOutcome(rows, last,
                     toolReply([count |-> Len(products),
                                products |-> products])) :
            products \in ordered(selected(rows, stmt), stmt.orderBy)}

\* case "get_weekly_sales"
getWeeklySales(args, rows, last) ==
    LET found == IF NumberSet(args, "product_id")
                 THEN ordered({r \in rows : r.id = args.product_id}, "")
                 ELSE IF Truthy(args, "type")
                 THEN ordered({r \in rows : r.type = args.type},
                              "weekly_sales DESC")
                 ELSE ordered(rows, "weekly_sales DESC")
    IN  {LET sales == [i \in 1..Len(f) |-> weeklyRow(f[i])]
         IN  toolOutcome(rows, last,
                 toolReply([total_weekly_sales |->
                                reduce(sales, "weekly_sales"),
                            total_weekly_revenue |->
                                reduce(sales, "weekly_revenue"),
                            products |-> sales])) :
            f \in found}

\* case "get_avg_cost_by_type"
getAvgCostByType(args, rows, last) ==
    {toolOutcome(rows, last,
         toolReply([average_costs_by_type |-> averageCostsByType(rows)]))}

\* The columns declared NOT NULL that an INSERT of the arguments leaves
\* without a value, in the order of the table.
nullColumns(args) ==
    SelectSeq(updatableColumns, LAMBDA c : c \notin DOMAIN args)

\* case "add_product": the INSERT runs on the arguments as they are.
addProduct(args, rows, last) ==
    IF nullColumns(args) # <<>>
    THEN {toolOutcome(rows, last,
              toolError("SQLITE_CONSTRAINT: NOT NULL constraint failed: products."
                        \o nullColumns(args)[1]))}
    ELSE {toolOutcome(rows \cup {insertRow(last, args)}, last + 1,
              toolReply([message |-> "Product added successfully",
                         product |-> insertRow(last, args)]))}

\* case "update_product"
updateProduct(args, rows, last) ==
    LET id == IF "id" \in DOMAIN args THEN args.id ELSE 0
        updated == updateRows(rows, id, args)
    IN  IF Len(updateFields(args)) = 0
        THEN {toolOutcome(rows, last, toolError("No fields to update"))}
        ELSE IF {r \in updated : r.id = id} = {}
        THEN {toolOutcome(updated, last, toolError("Product not found"))}
        ELSE {toolOutcome(updated, last,
                  toolReply([message |-> "Product updated successfully",
                             product |-> updatedProduct])) :
                 updatedProduct \in {r \in updated : r.id = id}}

\* case "delete_product"
deleteProduct(args, rows, last) ==
    LET id == IF "id" \in DOMAIN args THEN args.id ELSE 0
    IN  IF {r \in rows : r.id = id} = {}
        THEN {toolOutcome(rows, last, toolError("Product not found"))}
        ELSE {toolOutcome({r \in rows : r.id # id}, last,
                  toolReply([message |-> "Product deleted successfully",
                             deleted_product |-> product])) :
                 product \in {r \in rows : r.id = id}}

\* switch (name)
callTool(name, args, rows, last) ==
    CASE name = "get_products" -> getProducts(args, rows, last)
      [] name = "get_weekly_sales" -> getWeeklySales(args, rows, last)
      [] name = "get_avg_cost_by_type" -> getAvgCostByType(args, rows, last)
      [] name = "add_product" -> addProduct(args, rows, last)
      [] name = "update_product" -> updateProduct(args, rows, last)
      [] name = "delete_product" -> deleteProduct(args, rows, last)
      [] OTHER -> {toolOutcome(rows, last,
                               toolError("Unknown tool: " \o name))}

\* One call handled by the tool server, which runs once main() has made
\* the table.
McpCallTool(name, args) ==
    /\ tableExists
    /\ name = "add_product" /\ nullColumns(args) = <<>>
          => seq < Len(sampleProducts) + MaxAdds
    /\ request' = [op |-> "tools/call", name |-> name, arguments |-> args]
    /\ \E outcome \in callTool(name, args, table, seq) :
          /\ table' = outcome.table
          /\ seq' = outcome.seq
          /\ response' = outcome.reply
    /\ dbLog' = <<>>
    /\ fetched' = <<>>
    /\ UNCHANGED <<tableExists, lastRowid, calls>>

-----------------------------------------------------------------------------
(* The front-end specification: the tool server's start, then the         *)
(* requests of the HTTP front-end and the calls of the tool front-end on  *)
(* the one table, one handled after the other.                            *)

ListTypes == {Undefined, Str("hair")}

\* The name, type and category of the listings asked for.
ListFilters ==
    {<<Undefined, Undefined, Undefined>>,
     <<Str("c_nd"), Undefined, Undefined>>,
     <<Str("LOTION"), Undefined, Undefined>>,
     <<Undefined, Str("hair"), Str("conditioner")>>}

FrontEndQuestions == {Str("weekly sales for hair"), Str("show sales")}

\* The ids deletes and updates are addressed to; no product ever has the
\* id 9.
DeleteIds == {"1", "6", "9"}

UpdateIds == {"2", "9"}

UpdateBodies ==
    {EmptyObject, [type |-> "perfume"], [type |-> "toys", cost |-> -500]}

ToolCalls ==
    {<<"get_products", args>> :
        args \in {EmptyObject, [name |-> "c_nd"],
                  [type |-> "hair", category |-> "conditioner"]}}
    \cup {<<"get_weekly_sales", args>> :
            args \in {EmptyObject, [type |-> "hair"], [product_id |-> 2]}}
    \cup {<<"get_avg_cost_by_type", EmptyObject>>}
    \cup {<<"add_product", args>> : args \in AddBodies}
    \cup {<<"update_product", args>> :
            args \in {[id |-> 2], [id |-> 2, type |-> "perfume"],
                      [id |-> 9, type |-> "perfume"]}}
    \cup {<<"delete_product", args>> : args \in {[id |-> 1], [id |-> 9]}}
    \cup {<<"get_product", EmptyObject>>}

QueryListed ==
    \E question \in FrontEndQuestions :
        HttpQuery(question, interpreted[question])

WeeklySalesListed == \E type \in ListTypes : HttpWeeklySales(type, Undefined)

ListProducts ==
    \E filters \in ListFilters :
        HttpListProducts(filters[1], filters[2], filters[3])

AverageCosts == HttpAverageCosts

UpdateProduct ==
    \E id \in UpdateIds, updates \in UpdateBodies :
        HttpUpdateProduct(id, updates)

DeleteListed == \E id \in DeleteIds : HttpDeleteProduct(id)

CallTool == \E call \in ToolCalls : McpCallTool(call[1], call[2])

NextFrontEnds ==
    \/ McpMain
    \/ QueryListed
    \/ WeeklySalesListed
    \/ ListProducts
    \/ AverageCosts
    \/ AddProduct
    \/ UpdateProduct
    \/ DeleteListed
    \/ CallTool

SpecFrontEnds == Init /\ [][NextFrontEnds]_vars

-----------------------------------------------------------------------------
(* The update specification: updates of either front-end on the seeded    *)
(* catalog, each with the values of one body for a set of the five        *)
(* columns, one handled after the other.                                  *)

InitSeeded ==
    /\ tableExists = TRUE
    /\ table = seededRows(0)
    /\ seq = Len(sampleProducts)
    /\ lastRowid = 0
    /\ request = NoRequest
    /\ response = NoResponse
    /\ dbLog = <<>>
    /\ fetched = <<>>
    /\ calls = <<>>

UpdateValues ==
    [name |-> "Conditioner Max", type |-> "skin", category |-> "balm",
     cost |-> 0, sales_per_day |-> 30]

\* The body that supplies the columns of F.
UpdateBody(F) == [k \in F |-> UpdateValues[k]]

\* The arguments of update_product for the id and the columns of F.
UpdateArguments(id, F) ==
    [k \in F \cup {"id"} |-> IF k = "id" THEN id ELSE UpdateValues[k]]

UpdateFieldSet ==
    \E id \in UpdateIds, F \in SUBSET DOMAIN UpdateValues :
        HttpUpdateProduct(id, UpdateBody(F))

CallUpdateFieldSet ==
    \E id \in UpdateIds, F \in SUBSET DOMAIN UpdateValues :
        McpCallTool("update_product", UpdateArguments(idOfText(id), F))

NextUpdate == UpdateFieldSet \/ CallUpdateFieldSet

SpecUpdate == InitSeeded /\ [][NextUpdate]_vars

-----------------------------------------------------------------------------
(* The add specification: POST /api/products on the seeded catalog with   *)
(* bodies that leave out, leave empty or zero, or fill each of the five   *)
(* fields, one handled after the other.                                   *)

\* For each field, the empty or zero value and a filled one.
AddOptions ==
    [name |-> <<"", "Hair Oil">>, type |-> <<"", "hair">>,
     category |-> <<"", "oil">>, cost |-> <<0, 749>>,
     sales_per_day |-> <<0, 30>>]

\* The bodies: a set of the fields, each with one of its two values.
AddFieldBodies ==
    UNION {{[k \in F |-> AddOptions[k][choice[k]]] : choice \in [F -> 1..2]} :
              F \in SUBSET DOMAIN AddOptions}

AddFieldSet == \E body \in AddFieldBodies : HttpAddProduct(body)

NextAdd == AddFieldSet

SpecAdd == InitSeeded /\ [][NextAdd]_vars

-----------------------------------------------------------------------------
(* The restart specification: the tool server is started, serves deletes  *)
(* of the products seeded first, and is started again, on the table the   *)
(* run before left.                                                       *)

\* The ids of the products the first start inserts.
FirstIds == 1..Len(sampleProducts)

\* A start; the ids given out stay within two rounds of samples.
Restart == main(2 * Len(sampleProducts))

CallDelete ==
    \E id \in FirstIds : McpCallTool("delete_product", [id |-> id])

NextRestart == Restart \/ CallDelete

SpecRestart == Init /\ [][NextRestart]_vars

-----------------------------------------------------------------------------
(* The concurrent specification: requests of the HTTP server in flight    *)
(* together on the seeded catalog.  A handler runs without interruption   *)
(* from one await to the next; the statements the handlers have issued on *)
(* the one connection run one at a time, those of different requests in   *)
(* any order.  A step runs the statement a request waits for, and its     *)
(* handler up to the next await or the response.                          *)

\* The requests in flight together.
MaxCalls == 2

Calls == 1..MaxCalls

ConcurrentRequests ==
    {[op |-> "POST /api/query", question |-> q] : q \in FrontEndQuestions}
    \cup {[op |-> "POST /api/products", body |-> b] :
             b \in {a \in AddBodies : ~missingRequiredFields(a)}}
    \cup {[op |-> "DELETE /api/products/:id", id |-> "1"]}
    \cup {[op |-> "PUT /api/products/:id", id |-> "2",
           body |-> [type |-> "perfume"]]}

\* A call: where its handler is, its request, what the handler holds over
\* the await (local), and its response.
Idle ==
    [pc |-> "idle", request |-> NoRequest, local |-> <<>>,
     response |-> NoResponse]

awaiting(r, n, local) ==
    [pc |-> n, request |-> r, local |-> local, response |-> NoResponse]

responded(call, status, body) ==
    [call EXCEPT !.pc = "done",
                 !.response = [status |-> status, body |-> body]]

InitConcurrent ==
    /\ tableExists = TRUE
    /\ table = seededRows(0)
    /\ seq = Len(sampleProducts)
    /\ lastRowid = 0
    /\ request = NoRequest
    /\ response = NoResponse
    /\ dbLog = <<>>
    /\ fetched = <<>>
    /\ calls = [c \in Calls |-> Idle]

\* A request arrives: its handler runs up to its first await.  The
\* requests of ConcurrentRequests pass the tests the handlers make before
\* it.
Receive(c) ==
    /\ calls[c].pc = "idle"
    /\ \E r \in ConcurrentRequests :
          calls' = [calls EXCEPT ![c] = awaiting(r, "await 1", <<>>)]
    /\ UNCHANGED <<tableExists, table, seq, lastRowid, request, response,
                   dbLog, fetched>>

At(c, op, n) == calls[c].request.op = op /\ calls[c].pc = n

\* POST /api/query: await dbAll(select, params), then the response.
QuerySelect(c) ==
    /\ At(c, "POST /api/query", "await 1")
    /\ LET parsed == interpreted[calls[c].request.question]
       IN  \E products \in dbAll(queryStatement(parsed.scope)) :
              calls' = [calls EXCEPT ![c] =
                           [@ EXCEPT !.pc = "done",
                                     !.response =
                                         queryResponse(parsed, products)]]
    /\ UNCHANGED <<tableExists, table, seq, lastRowid, request, response,
                   dbLog, fetched>>

\* POST /api/products: await dbRun(INSERT ...).  local keeps the id the
\* INSERT gave (this.lastID of the statement), which the handler does not
\* read.
AddInsert(c) ==
    /\ At(c, "POST /api/products", "await 1")
    /\ seq < Len(sampleProducts) + MaxCalls
    /\ table' = table \cup {insertRow(seq, calls[c].request.body)}
    /\ seq' = seq + 1
    /\ lastRowid' = seq + 1
    /\ calls' = [calls EXCEPT ![c] =
                    awaiting(@.request, "await 2", [lastID |-> seq + 1])]
    /\ UNCHANGED <<tableExists, request, response, dbLog, fetched>>

\* POST /api/products: await dbGet(SELECT ... WHERE id =
\* last_insert_rowid()), then the response; JSON leaves out a product that
\* is undefined.
AddSelect(c) ==
    /\ At(c, "POST /api/products", "await 2")
    /\ IF dbGet(lastRowid) = {}
       THEN calls' = [calls EXCEPT ![c] =
                         responded(@, 200,
                             [success |-> TRUE,
                              message |-> "Product added successfully"])]
       ELSE \E newProduct \in dbGet(lastRowid) :
               calls' = [calls EXCEPT ![c] =
                            responded(@, 200,
                                [success |-> TRUE,
                                 message |-> "Product added successfully",
                                 product |-> newProduct])]
    /\ UNCHANGED <<tableExists, table, seq, lastRowid, request, response,
                   dbLog, fetched>>

\* DELETE /api/products/:id: await dbGet(SELECT ... WHERE id = ?), then
\* the 404 or the DELETE issued; local is the handler's product.
DeleteSelect(c) ==
    /\ At(c, "DELETE /api/products/:id", "await 1")
    /\ LET id == idOfText(calls[c].request.id)
       IN  IF dbGet(id) = {}
           THEN calls' = [calls EXCEPT ![c] =
                             responded(@, 404,
                                 [success |-> FALSE,
                                  error |-> "Product not found"])]
           ELSE \E product \in dbGet(id) :
                   calls' = [calls EXCEPT ![c] =
                                awaiting(@.request, "await 2", product)]
    /\ UNCHANGED <<tableExists, table, seq, lastRowid, request, response,
                   dbLog, fetched>>

\* DELETE /api/products/:id: await dbRun(DELETE ... WHERE id = ?), then
\* the response with the product read before.
DeleteDelete(c) ==
    /\ At(c, "DELETE /api/products/:id", "await 2")
    /\ table' = {r \in table : r.id # idOfText(calls[c].request.id)}
    /\ calls' = [calls EXCEPT ![c] =
                    responded(@, 200,
                        [success |-> TRUE,
                         message |-> "Product deleted successfully",
                         deleted_product |-> @.local])]
    /\ UNCHANGED <<tableExists, seq, lastRowid, request, response, dbLog,
                   fetched>>

\* PUT /api/products/:id: await dbRun(UPDATE ... WHERE id = ?).
UpdateUpdate(c) ==
    /\ At(c, "PUT /api/products/:id", "await 1")
    /\ table' = updateRows(table, idOfText(calls[c].request.id),
                           calls[c].request.body)
    /\ calls' = [calls EXCEPT ![c] = awaiting(@.request, "await 2", <<>>)]
    /\ UNCHANGED <<tableExists, seq, lastRowid, request, response, dbLog,
                   fetched>>

\* PUT /api/products/:id: await dbGet(SELECT ... WHERE id = ?), then the
\* 404 or the response with the product read.
UpdateSelect(c) ==
    /\ At(c, "PUT /api/products/:id", "await 2")
    /\ LET id == idOfText(calls[c].request.id)
       IN  IF dbGet(id) = {}
           THEN calls' = [calls EXCEPT ![c] =
                             responded(@, 404,
                                 [success |-> FALSE,
                                  error |-> "Product not found"])]
           ELSE \E updatedProduct \in dbGet(id) :
                   calls' = [calls EXCEPT ![c] =
                                responded(@, 200,
                                    [success |-> TRUE,
                                     message |-> "Product updated successfully",
                                     product |-> updatedProduct])]
    /\ UNCHANGED <<tableExists, table, seq, lastRowid, request, response,
                   dbLog, fetched>>

Arrive == \E c \in Calls : Receive(c)
RunQuerySelect == \E c \in Calls : QuerySelect(c)
RunAddInsert == \E c \in Calls : AddInsert(c)
RunAddSelect == \E c \in Calls : AddSelect(c)
RunDeleteSelect == \E c \in Calls : DeleteSelect(c)
RunDeleteDelete == \E c \in Calls : DeleteDelete(c)
RunUpdateUpdate == \E c \in Calls : UpdateUpdate(c)
RunUpdateSelect == \E c \in Calls : UpdateSelect(c)

NextConcurrent ==
    \/ Arrive
    \/ RunQuerySelect
    \/ RunAddInsert
    \/ RunAddSelect
    \/ RunDeleteSelect
    \/ RunDeleteDelete
    \/ RunUpdateUpdate
    \/ RunUpdateSelect

SpecConcurrent == InitConcurrent /\ [][NextConcurrent]_vars

-----------------------------------------------------------------------------
(* What the claims speak of *)

\* A question has been put to POST /api/query and is answered.
QueryAnswered == request.op = "POST /api/query" /\ response # NoResponse

\* It is answered with a result.
QuerySucceeded == QueryAnswered /\ response.status = 200

\* The text of the question; a missing or null question has none.
QuestionText ==
    IF request.question.kind = "string" THEN request.question.text ELSE ""

Blank(t) == \A i \in 1..Len(t) : CharAt(t, i) \in Whitespace

Interpreted == response.body.interpreted

\* The keywords of scope resolution in their one order, and the scope each
\* stands for.
ScopeKeywords ==
    <<"hair", "perfume", "skin", "shampoo", "conditioner", "gucci",
      "victoria secret", "victoria_secret", "body lotion", "body_lotion",
      "moisturizer">>

ScopeOfKeyword ==
    << [type |-> "hair"], [type |-> "perfume"], [type |-> "skin"],
       [category |-> "shampoo"], [category |-> "conditioner"],
       [category |-> "gucci"], [category |-> "victoria_secret"],
       [category |-> "victoria_secret"], [category |-> "body_lotion"],
       [category |-> "body_lotion"], [category |-> "moisturizer"] >>

\* The places in ScopeKeywords of the keywords the text holds.
KeywordsIn(t) ==
    {k \in 1..Len(ScopeKeywords) : includes(toLowerCase(t), ScopeKeywords[k])}

First(ks) == CHOOSE k \in ks : \A j \in ks : k <= j

\* The place in ScopeKeywords, from the k-th on, of the earliest keyword
\* the lower-cased text t holds; 0 when it holds none.
RECURSIVE EarliestKeyword(_, _)
EarliestKeyword(t, k) ==
    IF k > Len(ScopeKeywords) THEN 0
    ELSE IF includes(t, ScopeKeywords[k]) THEN k
    ELSE EarliestKeyword(t, k + 1)

-----------------------------------------------------------------------------
(* C1 *)

\* C1: a question whose text is blank or missing gets the empty-query
\* error: status 400, success false, no statement run on the catalog, no
\* items and no totals; a text with a character that is no blank never
\* gets that error.
C1_EmptyQuestionRejected ==
    QueryAnswered =>
        IF Blank(QuestionText)
        THEN /\ response = [status |-> 400,
                            body |-> [success |-> FALSE,
                                      error |-> "Empty query"]]
             /\ dbLog = <<>>
             /\ fetched = <<>>
        ELSE /\ response.status # 400
             /\ "error" \notin DOMAIN response.body

\* A text of blanks only has been rejected.
C1_Witness ==
    /\ QueryAnswered
    /\ Len(QuestionText) > 1
    /\ Blank(QuestionText)
    /\ response.status = 400

-----------------------------------------------------------------------------
(* C2 *)

\* C2: the period is week exactly when the lower-cased text holds "week"
\* and none of "today", "per day", "daily"; otherwise it is day.
C2_PeriodRule ==
    QuerySucceeded =>
        LET t == toLowerCase(QuestionText)
            week == /\ includes(t, "week")
                    /\ ~includes(t, "today")
                    /\ ~includes(t, "per day")
                    /\ ~includes(t, "daily")
        IN  Interpreted.period = IF week THEN "week" ELSE "day"

\* "daily" behind "week" has overridden it.
C2_Witness ==
    /\ QuerySucceeded
    /\ \E i \in 1..Len(QuestionText) :
          /\ includes(SubSeq(QuestionText, 1, i), "week")
          /\ includes(SubSeq(QuestionText, i + 1, Len(QuestionText)), "daily")
    /\ Interpreted.period = "day"

-----------------------------------------------------------------------------
(* C3 *)

\* C3: the scope is the one of the earliest keyword, in the one keyword
\* order, that the text holds, wherever it stands in the text; without a
\* keyword the scope is neither a type nor a category.
C3_FirstKeywordWins ==
    QuerySucceeded =>
        LET k == EarliestKeyword(toLowerCase(QuestionText), 1)
        IN  IF k # 0
            THEN Interpreted.scope = ScopeOfKeyword[k]
            ELSE DOMAIN Interpreted.scope \subseteq {"name"}

\* A category keyword stands before a type keyword in the text, and the
\* type has won.
C3_Witness ==
    /\ QuerySucceeded
    /\ \E i \in 1..Len(QuestionText) :
          /\ includes(SubSeq(QuestionText, 1, i), "gucci")
          /\ includes(SubSeq(QuestionText, i + 1, Len(QuestionText)), "skin")
    /\ Interpreted.scope = [type |-> "skin"]

-----------------------------------------------------------------------------
(* C4 *)

CategoryValues ==
    {"shampoo", "conditioner", "gucci", "victoria_secret", "body_lotion",
     "moisturizer"}

\* C4: a category scope holds one of the six category values, without a
\* blank, and the spaced spelling of a keyword gives the value of its
\* underscored spelling.
C4_CategoryNormalised ==
    (QuerySucceeded /\ "category" \in DOMAIN Interpreted.scope) =>
        LET value == Interpreted.scope.category
            t == toLowerCase(QuestionText)
        IN  /\ value \in CategoryValues
            /\ \A i \in 1..Len(value) : CharAt(value, i) \notin Whitespace
            /\ (includes(t, "victoria secret") /\ KeywordsIn(t) \subseteq {7, 8})
                  => value = "victoria_secret"
            /\ (includes(t, "body lotion") /\ KeywordsIn(t) \subseteq {9, 10})
                  => value = "body_lotion"

\* The spaced spelling alone has given the underscored value.
C4_Witness ==
    /\ QuerySucceeded
    /\ KeywordsIn(QuestionText) = {9}
    /\ Interpreted.scope = [category |-> "body_lotion"]

-----------------------------------------------------------------------------
(* C5 *)

\* The stop-phrases in the order the question is searched for them; the
\* blank of a two-word phrase stands for a run of blanks.
StopPhraseTexts ==
    <<"sales", "sale", "revenue", "for", "of", "what", "show", "get",
      "how many", "how much", "today", "weekly", "this week", "per day">>

\* The text t holds the word w from position i on.
WordAt(t, w, i) ==
    i >= 1 /\ i + Len(w) - 1 <= Len(t) /\ SubSeq(t, i, i + Len(w) - 1) = w

\* The last position of the occurrence of the phrase w that starts at
\* position i of t, 0 when none starts there.
OccurrenceEnd(t, w, i) ==
    LET blanks == {k \in 1..Len(w) : CharAt(w, k) = " "}
    IN  IF blanks = {}
        THEN IF WordAt(t, w, i) THEN i + Len(w) - 1 ELSE 0
        ELSE LET k == First(blanks)
                 first == SubSeq(w, 1, k - 1)
                 second == SubSeq(w, k + 1, Len(w))
                 starts == {j \in (i + Len(first) + 1)..Len(t) :
                               /\ WordAt(t, second, j)
                               /\ Blank(SubSeq(t, i + Len(first), j - 1))}
             IN  IF WordAt(t, first, i) /\ starts # {}
                 THEN First(starts) + Len(second) - 1
                 ELSE 0

\* What is left of t from position i on when the occurrences of the
\* stop-phrases are taken out from left to right.
RECURSIVE Remainder(_, _)
Remainder(t, i) ==
    IF i > Len(t) THEN ""
    ELSE LET found == {k \in 1..Len(StopPhraseTexts) :
                          OccurrenceEnd(t, StopPhraseTexts[k], i) # 0}
         IN  IF found = {}
             THEN CharAt(t, i) \o Remainder(t, i + 1)
             ELSE Remainder(t, OccurrenceEnd(t, StopPhraseTexts[First(found)],
                                             i) + 1)

\* C5: when the text holds no type and no category keyword, the scope is
\* the name pattern made of what is left of the trimmed, lower-cased text
\* once the stop-phrases are taken out, trimmed again; when only blanks
\* are left there is no scope.
C5_NameFallback ==
    QuerySucceeded =>
        LET t == toLowerCase(QuestionText)
            left == trim(Remainder(trim(t), 1))
        IN  EarliestKeyword(t, 1) = 0 =>
                IF left # ""
                THEN Interpreted.scope = [name |-> left]
                ELSE Interpreted.scope = EmptyObject

\* Stop-phrases were taken out before and behind a name, which was left.
C5_Witness ==
    /\ QuerySucceeded
    /\ QuestionText = "what revenue for soap today"
    /\ Interpreted.scope = [name |-> "soap"]

-----------------------------------------------------------------------------
(* C6 *)

LuxuryShampoo == "how much does Luxury Shampoo sell"
LuxurySoap == "how much does Luxury soap sell"

\* C6 as claimed: the question "how much does Luxury Shampoo sell" gets a
\* name pattern that holds "luxury shampoo sell" and "does", without
\* "how much".
C6_AsClaimed ==
    (QuerySucceeded /\ QuestionText = LuxuryShampoo) =>
        /\ DOMAIN Interpreted.scope = {"name"}
        /\ includes(Interpreted.scope.name, "luxury shampoo sell")
        /\ includes(Interpreted.scope.name, "does")
        /\ ~includes(Interpreted.scope.name, "how much")

\* C6 amended: the question "how much does Luxury Shampoo sell" holds the
\* category keyword "shampoo" and gets the category scope shampoo with
\* period day; the same question about soap, which holds no keyword, gets
\* the name pattern "does luxury soap sell".
C6_CategoryBeforeName ==
    /\ (QueryAnswered /\ QuestionText = LuxuryShampoo) =>
          /\ response.status = 200
          /\ Interpreted = [period |-> "day",
                            scope |-> [category |-> "shampoo"]]
    /\ (QueryAnswered /\ QuestionText = LuxurySoap) =>
          /\ response.status = 200
          /\ Interpreted = [period |-> "day",
                            scope |-> [name |-> "does luxury soap sell"]]

C6_Witness ==
    /\ QuerySucceeded
    /\ QuestionText = LuxuryShampoo
    /\ "category" \in DOMAIN Interpreted.scope

-----------------------------------------------------------------------------
(* C7 *)

ScopeKeys == {"type", "category", "name"}

\* C7: a result carries at most one of type, category and name, a name
\* pattern is never empty, and the lookup has one condition for the
\* dimension that is set and none otherwise.
C7_OneScopeDimension ==
    QuerySucceeded =>
        LET scope == Interpreted.scope
        IN  /\ DOMAIN scope \subseteq ScopeKeys
            /\ Cardinality(DOMAIN scope) <= 1
            /\ \A k \in DOMAIN scope : scope[k] # ""
            /\ Len(dbLog) = 1
            /\ Len(dbLog[1].where) = Cardinality(DOMAIN scope)
            /\ Len(dbLog[1].params) = Cardinality(DOMAIN scope)

\* The text holds a type keyword, a category keyword and a further word,
\* and the lookup has one condition.
C7_Witness ==
    /\ QuerySucceeded
    /\ QuestionText = LuxuryShampoo \o " " \o "hair"
    /\ Len(dbLog[1].where) = 1

-----------------------------------------------------------------------------
(* C8 *)

Items == response.body.items

\* C8: the result has one line item per product fetched, in the order
\* fetched; its sales are sales_per_day * 7 for the period week and
\* sales_per_day for the period day, its revenue is sales * cost, and id,
\* name, type, category and cost are the product's.
C8_LineItems ==
    QuerySucceeded =>
        /\ Len(Items) = Len(fetched)
        /\ \A i \in 1..Len(fetched) :
              LET p == fetched[i]
                  item == Items[i]
              IN  /\ item.name = p.name
                  /\ item.type = p.type
                  /\ item.category = p.category
                  /\ item.cost = p.cost
                  /\ item.id = p.id
                  /\ item.sales = IF Interpreted.period = "week"
                                  THEN p.sales_per_day * 7
                                  ELSE p.sales_per_day
                  /\ item.revenue = item.sales * p.cost

\* A week's result of several products that sell and cost something.
C8_Witness ==
    /\ QuerySucceeded
    /\ Interpreted.period = "week"
    /\ Len(Items) >= 2
    /\ \A i \in 1..Len(Items) : Items[i].revenue > 0

-----------------------------------------------------------------------------
(* C9 *)

\* The sum of a sequence of numbers.
RECURSIVE Sum(_)
Sum(numbers) ==
    IF numbers = <<>> THEN 0 ELSE Head(numbers) + Sum(Tail(numbers))

DailySales(rows) == [i \in 1..Len(rows) |-> rows[i].sales_per_day]
DailyRevenue(rows) ==
    [i \in 1..Len(rows) |-> rows[i].sales_per_day * rows[i].cost]
ItemRevenue(items) == [i \in 1..Len(items) |-> items[i].revenue]
WeeklyRevenue(rows) == [i \in 1..Len(rows) |-> rows[i].weekly_revenue]

-----------------------------------------------------------------------------
(* C10 *)

\* C10: when the catalog answers the lookup and no product is selected,
\* the query succeeds with no item and the totals 0 and 0.
C10_EmptySelection ==
    (QueryAnswered /\ dbLog # <<>> /\ response # noSuchTable
        /\ fetched = <<>>) =>
        /\ response.status = 200
        /\ response.body.success = TRUE
        /\ response.body.items = <<>>
        /\ response.body.totals = [sales |-> 0, revenue |-> 0]

\* A scoped question put to the catalog after its last product was
\* deleted.
C10_Witness ==
    /\ QuerySucceeded
    /\ tableExists
    /\ table = {}
    /\ DOMAIN Interpreted.scope # {}
    /\ Items = <<>>

-----------------------------------------------------------------------------
(* C11 *)

\* The type statistics have been asked of either front-end and answered.
StatsAnswered ==
    \/ request.op = "GET /api/costs/average" /\ response.status = 200
    \/ /\ request.op = "tools/call"
       /\ request.name = "get_avg_cost_by_type"
       /\ ~response.isError

Stats ==
    IF request.op = "tools/call"
    THEN response.content.average_costs_by_type
    ELSE response.body.average_costs_by_type

\* The sum of the numbers f gives for the products of a set.
RECURSIVE Total(_, _)
Total(products, f) ==
    IF products = {} THEN 0
    ELSE LET p == CHOOSE q \in products : TRUE
         IN  f[p] + Total(products \ {p}, f)

CostOf == [p \in table |-> p.cost]
DailySalesOf == [p \in table |-> p.sales_per_day]

\* The products of the claim's example.
ExampleProducts ==
    {Row(1, "a", "hair", "x", 10, 1), Row(2, "b", "hair", "x", 20, 1),
     Row(3, "c", "perfume", "y", 5, 1)}

-----------------------------------------------------------------------------
(* C12 *)

\* The type values products are given, in ascending order.
TypeValues == <<"hair", "perfume", "skin", "toys">>

TypePlace(type) == CHOOSE k \in 1..Len(TypeValues) : TypeValues[k] = type

\* C12: the groups of the type statistics come in ascending order of their
\* type, so no type comes twice, and a type has a group exactly when a
\* product of the catalog has that type.
C12_GroupsOrderedAndObserved ==
    StatsAnswered =>
        /\ \A i, j \in 1..Len(Stats) :
              i < j => TypePlace(Stats[i].type) < TypePlace(Stats[j].type)
        /\ \A k \in 1..Len(TypeValues) :
              (\E i \in 1..Len(Stats) : Stats[i].type = TypeValues[k])
                  <=> (\E p \in table : p.type = TypeValues[k])

\* The one hair product was deleted and the other given another type: the
\* statistics have groups, and none for hair.
C12_Witness ==
    /\ StatsAnswered
    /\ Len(Stats) >= 2
    /\ \A i \in 1..Len(Stats) : Stats[i].type # "hair"
    /\ \E p \in table : p.id = 2
    /\ \A p \in table : p.id # 1

-----------------------------------------------------------------------------
(* C13 *)

\* The weekly sales of the rows of a result, in its order: an item of a
\* query holds them as its sales for the week and a seventh of them for
\* the day, a row of the weekly-sales report as its weekly_sales.
WeeklySalesOf(rows) ==
    [i \in 1..Len(rows) |->
        IF "weekly_sales" \in DOMAIN rows[i] THEN rows[i].weekly_sales
        ELSE IF rows[i].period = "week" THEN rows[i].sales
        ELSE rows[i].sales * 7]

HighestSellerFirst(rows) ==
    \A i, j \in 1..Len(rows) :
        i < j => WeeklySalesOf(rows)[i] >= WeeklySalesOf(rows)[j]

NameAscending(rows) ==
    \A i, j \in 1..Len(rows) : i < j => ~textLess(rows[j].name, rows[i].name)

\* C13 as claimed: the items of a query whose scope is a type, and the
\* rows of the weekly-sales report asked for a type, come in descending
\* order of weekly sales; the products of the listing come in ascending
\* order of name.
C13_ScopedByTypeHighestFirst ==
    /\ (QuerySucceeded /\ "type" \in DOMAIN Interpreted.scope) =>
          HighestSellerFirst(Items)
    /\ (request.op = "GET /api/sales/weekly" /\ response.status = 200
           /\ IsSet(request.type)) =>
          HighestSellerFirst(response.body.products)
    /\ (request.op = "GET /api/products" /\ response.status = 200) =>
          NameAscending(response.body.products)

-----------------------------------------------------------------------------
(* C14 *)

\* The listing has been asked of either front-end and answered.
ListingAnswered ==
    \/ request.op = "GET /api/products" /\ response.status = 200
    \/ /\ request.op = "tools/call"
       /\ request.name = "get_products"
       /\ ~response.isError

Listing == IF request.op = "tools/call" THEN response.content
           ELSE response.body

\* The text of the filter k of the listing request, "" when it was left
\* out.
FilterText(k) ==
    IF request.op = "tools/call"
    THEN IF k \in DOMAIN request.arguments THEN request.arguments[k] ELSE ""
    ELSE IF request[k].kind = "string" THEN request[k].text ELSE ""

\* C14 as claimed: the listing returns, each once, the products whose name
\* holds the name filter as a substring without regard to case, whose
\* type is the type filter and whose category is the category filter; a
\* filter left out restricts nothing, and the count is the number of
\* products returned.
C14_ListingFilters ==
    ListingAnswered =>
        LET products == Listing.products
            name == FilterText("name")
            type == FilterText("type")
            category == FilterText("category")
        IN  /\ {products[i] : i \in 1..Len(products)}
                  = {p \in table :
                        /\ name # "" =>
                              includes(toLowerCase(p.name), toLowerCase(name))
                        /\ type # "" => p.type = type
                        /\ category # "" => p.category = category}
            /\ Cardinality({products[i] : i \in 1..Len(products)})
                  = Len(products)
            /\ Listing.count = Len(products)

-----------------------------------------------------------------------------
(* C15 *)

\* The catalog holds the six sample products with the ids 1 to 6 and
\* nothing else.
FreshlySeeded == tableExists /\ table = seededRows(0)

\* C15: on the freshly seeded catalog the question "weekly sales for hair"
\* is read as week and type hair, its items are Shampoo Pro and
\* Conditioner Plus and no other, its total sales are 189 and its total
\* revenue 262311 cents; the weekly-sales tool called for hair gives the
\* same two totals.
C15_SeededWeeklyHair ==
    /\ (QuerySucceeded /\ QuestionText = "weekly sales for hair"
           /\ FreshlySeeded) =>
          /\ Interpreted = [period |-> "week", scope |-> [type |-> "hair"]]
          /\ Len(Items) = 2
          /\ {Items[i].name : i \in 1..Len(Items)}
                = {"Shampoo Pro", "Conditioner Plus"}
          /\ response.body.totals.sales = (15 + 12) * 7
          /\ response.body.totals.revenue = 15 * 7 * 1299 + 12 * 7 * 1499
          /\ response.body.totals.revenue = 262311
    /\ (request.op = "tools/call" /\ request.name = "get_weekly_sales"
           /\ request.arguments = [type |-> "hair"] /\ FreshlySeeded) =>
          /\ response.content.total_weekly_sales = 189
          /\ response.content.total_weekly_revenue = 262311

C15_Witness ==
    /\ QuerySucceeded
    /\ QuestionText = "weekly sales for hair"
    /\ FreshlySeeded
    /\ response.body.totals.sales = 189

-----------------------------------------------------------------------------
(* C16 *)

ToolCalled(name) == request.op = "tools/call" /\ request.name = name

\* The request is an update, or a delete, of either front-end.
IsUpdate == request.op = "PUT /api/products/:id" \/ ToolCalled("update_product")
IsDelete ==
    request.op = "DELETE /api/products/:id" \/ ToolCalled("delete_product")

\* The id an update or a delete is addressed to.
TargetId ==
    IF request.op = "tools/call" THEN request.arguments.id
    ELSE idOfText(request.id)

\* The fields an update carries.
UpdateOf ==
    IF request.op = "tools/call" THEN request.arguments ELSE request.body

NamesAField(updates) ==
    DOMAIN updates
        \cap {"name", "type", "category", "cost", "sales_per_day"} # {}

\* The answer is the not-found answer of the front-end asked.
NotFoundReported ==
    IF request.op = "tools/call"
    THEN response = [isError |-> TRUE,
                     content |-> [error |-> "Product not found"]]
    ELSE response = [status |-> 404,
                     body |-> [success |-> FALSE,
                               error |-> "Product not found"]]

DeletedProduct ==
    IF request.op = "tools/call" THEN response.content.deleted_product
    ELSE response.body.deleted_product

\* A delete of a product of the catalog takes out that product and no
\* other, and returns it as it was stored.
DeleteOfExisting ==
    (IsDelete' /\ \E p \in table : p.id = TargetId') =>
        \E p \in table : /\ p.id = TargetId'
                         /\ table' = table \ {p}
                         /\ DeletedProduct' = p

\* C16 as claimed: every update and every delete addressed to an id no
\* product has reports not found and leaves the catalog as it was; a
\* delete addressed to the id of a product removes that product alone and
\* returns it as it was stored.
C16_AsClaimed ==
    [][tableExists =>
        /\ ((IsUpdate' \/ IsDelete') /\ \A p \in table : p.id # TargetId') =>
              NotFoundReported' /\ table' = table
        /\ DeleteOfExisting]_vars

\* C16 amended: the same for a delete and for an update that names at
\* least one field; an update that names no field is answered "No fields
\* to update", whatever id it is addressed to, and leaves the catalog as
\* it was.
C16_NotFoundLeavesCatalog ==
    [][tableExists =>
        /\ (/\ (IsUpdate' /\ NamesAField(UpdateOf')) \/ IsDelete'
            /\ \A p \in table : p.id # TargetId') =>
              NotFoundReported' /\ table' = table
        /\ (IsUpdate' /\ ~NamesAField(UpdateOf')) =>
              /\ table' = table
              /\ ~NotFoundReported'
        /\ DeleteOfExisting]_vars

\* An update that names a field was addressed to an id no product has, and
\* was answered not found.
C16_Witness ==
    /\ tableExists
    /\ request.op = "PUT /api/products/:id"
    /\ request.id = "9"
    /\ NamesAField(request.body)
    /\ response.status = 404
    /\ table # {}

-----------------------------------------------------------------------------
(* C17 *)

HttpWrites ==
    {"POST /api/products", "PUT /api/products/:id", "DELETE /api/products/:id"}

\* The tool that performs the operation of an HTTP write request.
ToolOfRequest ==
    CASE request.op = "POST /api/products" -> "add_product"
      [] request.op = "PUT /api/products/:id" -> "update_product"
      [] request.op = "DELETE /api/products/:id" -> "delete_product"

\* The same request, as the arguments of that tool.
ArgumentsOfRequest ==
    CASE request.op = "POST /api/products" -> request.body
      [] request.op = "PUT /api/products/:id" ->
            [k \in DOMAIN request.body \cup {"id"} |->
                IF k = "id" THEN idOfText(request.id) ELSE request.body[k]]
      [] request.op = "DELETE /api/products/:id" ->
            [id |-> idOfText(request.id)]

\* How an answer is classified: done, not found, or rejected.
HttpOutcome ==
    IF response.status \in {200, 201} THEN "done"
    ELSE IF response.status = 404 THEN "not found"
    ELSE "rejected"

ToolOutcome(reply) ==
    IF ~reply.isError THEN "done"
    ELSE IF reply.content.error = "Product not found" THEN "not found"
    ELSE "rejected"

\* C17: a write request handled by the HTTP front-end leaves the catalog
\* in the state, and is answered with the outcome, that the tool front-end
\* gives for the same request on the same catalog.
C17_FrontEndsEquivalent ==
    [][(tableExists /\ request'.op \in HttpWrites) =>
          \E outcome \in callTool(ToolOfRequest', ArgumentsOfRequest',
                                  table, seq) :
              /\ outcome.table = table'
              /\ ToolOutcome(outcome.reply) = HttpOutcome']_vars

-----------------------------------------------------------------------------
(* C18 *)

\* An add was asked of either front-end and was answered as done.
AddSucceeded ==
    \/ request.op = "POST /api/products" /\ response.status = 200
    \/ ToolCalled("add_product") /\ ~response.isError

\* The fields the add submitted, and the product the answer shows.
Submitted ==
    IF request.op = "tools/call" THEN request.arguments ELSE request.body
AddedProduct ==
    IF request.op = "tools/call" THEN response.content.product
    ELSE response.body.product

\* The listing asked for had no filter.
Unfiltered ==
    /\ FilterText("name") = ""
    /\ FilterText("type") = ""
    /\ FilterText("category") = ""

Listed == {Listing.products[i] : i \in 1..Len(Listing.products)}

\* C18: a completed add leaves the catalog with one product more, which
\* carries the name, type, category, cost and sales_per_day submitted;
\* every unfiltered listing answered afterwards shows the catalog as the
\* writes completed before it left it, each product once, with their
\* number as its count, and the groups of every aggregate answered
\* afterwards count the products of that catalog.
C18_ReadYourWrites ==
    [][/\ AddSucceeded' =>
            \E p \in table' \ table :
                /\ table' = table \cup {p}
                /\ Cardinality(table') = Cardinality(table) + 1
                /\ p = AddedProduct'
                /\ \A k \in {"name", "type", "category", "cost",
                             "sales_per_day"} : p[k] = Submitted'[k]
       /\ (ListingAnswered' /\ Unfiltered') =>
            /\ Listed' = table
            /\ Len(Listing'.products) = Cardinality(table)
            /\ Listing'.count = Cardinality(table)
       /\ StatsAnswered' =>
            Sum([i \in 1..Len(Stats') |-> Stats'[i].product_count])
                = Cardinality(table)]_vars

\* An unfiltered listing answered after an add to the seeded catalog: it
\* shows the added product and counts one more than the six seeded.
C18_Witness ==
    /\ ListingAnswered
    /\ Unfiltered
    /\ Listing.count = Len(sampleProducts) + 1
    /\ \E p \in Listed :
          /\ p.id = Len(sampleProducts) + 1
          /\ p.name = "Premium Conditioner"
          /\ p.cost = 1999
          /\ p.sales_per_day = 25

-----------------------------------------------------------------------------
(* C19 *)

ProductTypes == {"hair", "perfume", "skin"}

\* C19 as claimed: every product of the catalog has one of the three
\* types, a cost that is not negative and daily sales that are not
\* negative.
C19_ProductInvariant ==
    \A p \in table :
        /\ p.type \in ProductTypes
        /\ p.cost >= 0
        /\ p.sales_per_day >= 0

-----------------------------------------------------------------------------
(* C20 *)

Ids(products) == {p.id : p \in products}

\* C20: no two products of the catalog share an id; no product has an id
\* above the highest one given out so far, and that mark never goes down,
\* deletes included; an add gives its product an id above the mark, hence
\* one no product, in the catalog or deleted, has had; an update leaves
\* the ids of the catalog as they were and changes no product but the
\* one of the id it was addressed to.
C20_IdentifiersUnique ==
    [][/\ \A p, q \in table' : p.id = q.id => p = q
       /\ \A p \in table' : p.id <= seq'
       /\ seq' >= seq
       /\ (tableExists /\ AddSucceeded') =>
            /\ AddedProduct'.id > seq
            /\ AddedProduct'.id \notin Ids(table)
            /\ Ids(table') = Ids(table) \cup {AddedProduct'.id}
       /\ (tableExists /\ IsUpdate') =>
            /\ Ids(table') = Ids(table)
            /\ Cardinality(table') = Cardinality(table)
            /\ \A p \in table' \ table :
                  /\ p.id = TargetId'
                  /\ \E q \in table \ table' : q.id = p.id
       /\ (tableExists /\ IsDelete') => Ids(table') \subseteq Ids(table)]_vars

\* An add after the delete of the product seeded last: the new product
\* has the next id, not the one the deleted product had.
C20_Witness ==
    /\ AddSucceeded
    /\ AddedProduct.id = Len(sampleProducts) + 1
    /\ AddedProduct \in table
    /\ Len(sampleProducts) \notin Ids(table)

-----------------------------------------------------------------------------
(* C23 *)

Columns == {"name", "type", "category", "cost", "sales_per_day"}

\* The answer is the no-fields answer of the front-end asked.
NoFieldsReported ==
    IF request.op = "tools/call"
    THEN response = [isError |-> TRUE,
                     content |-> [error |-> "No fields to update"]]
    ELSE response = [status |-> 400,
                     body |-> [success |-> FALSE,
                               error |-> "No fields to update"]]

UpdatedProduct ==
    IF request.op = "tools/call" THEN response.content.product
    ELSE response.body.product

\* C23: an update that supplies a set F of the five columns for the id of
\* a product leaves that product with the supplied values in the columns
\* of F and with its id and its other columns as they were, answers with
\* that product, and leaves every other product as it was; an update that
\* supplies none of the columns is answered "No fields to update" and
\* leaves the catalog as it was, whether a product has the id or not.
C23_UpdateSetsSuppliedFields ==
    [][(tableExists /\ IsUpdate') =>
          LET F == DOMAIN UpdateOf' \cap Columns
          IN  IF F = {}
              THEN NoFieldsReported' /\ table' = table
              ELSE /\ Cardinality(table') = Cardinality(table)
                   /\ \A p \in table :
                        IF p.id # TargetId' THEN p \in table'
                        ELSE \E q \in table' :
                                /\ q.id = p.id
                                /\ \A k \in F : q[k] = UpdateOf'[k]
                                /\ \A k \in Columns \ F : q[k] = p[k]
                                /\ UpdatedProduct' = q]_vars

\* An update of product 2 that supplied name and cost alone was answered
\* with the product: new name and cost, the type and daily sales seeded.
C23_Witness ==
    /\ IsUpdate
    /\ TargetId = 2
    /\ DOMAIN UpdateOf \cap Columns = {"name", "cost"}
    /\ \E q \in table :
          /\ q = UpdatedProduct
          /\ q.name = UpdateValues.name
          /\ q.cost = UpdateValues.cost
          /\ q.type = sampleProducts[2].type
          /\ q.sales_per_day = sampleProducts[2].sales_per_day

-----------------------------------------------------------------------------
(* C24 *)

\* name, type or category is left out or empty, or cost or sales_per_day
\* is left out.
RequiredFieldMissing(body) ==
    \/ \E k \in {"name", "type", "category"} :
          k \notin DOMAIN body \/ body[k] = ""
    \/ \E k \in {"cost", "sales_per_day"} : k \notin DOMAIN body

MissingFieldsReported ==
    response =
        [status |-> 400,
         body |-> [success |-> FALSE,
                   error |-> "Missing required fields: name, type, category, cost, sales_per_day"]]

-----------------------------------------------------------------------------
(* C25 *)

\* The product carries the five fields of the i-th sample.
IsSample(p, i) ==
    \A k \in Columns : p[k] = sampleProducts[i][k]

\* The products are the six samples, each once.
TheSamples(products) ==
    /\ Cardinality(products) = Len(sampleProducts)
    /\ \A i \in 1..Len(sampleProducts) :
          Cardinality({p \in products : IsSample(p, i)}) = 1

\* C25: a start on a catalog that holds a product adds nothing, and a
\* start on a catalog that holds none, be it new or emptied by deletes,
\* leaves exactly the six samples; products come into the catalog in no
\* other way here, and no call is answered before the first start.
C25_SeededWhenEmpty ==
    [][/\ Restart =>
            IF table = {} THEN TheSamples(table') ELSE table' = table
       /\ ~(table' \subseteq table) => Restart /\ table = {}
       /\ request'.op = "tools/call" => tableExists]_vars

\* The catalog was emptied by deletes and the server started again: it
\* holds the six samples, under ids given after those of the first six.
C25_Witness ==
    /\ TheSamples(table)
    /\ \A p \in table : p.id > Len(sampleProducts)
    /\ request.op = "tools/call"
    /\ ~response.isError

-----------------------------------------------------------------------------
(* C21 *)

\* The call is a query that has been answered with a result.
QueryDone(c) ==
    /\ calls[c].request.op = "POST /api/query"
    /\ calls[c].pc = "done"
    /\ calls[c].response.status = 200

\* The product is within the scope a query was interpreted to have.
InScope(p, scope) ==
    /\ Truthy(scope, "type") => p.type = scope.type
    /\ Truthy(scope, "category") => p.category = scope.category
    /\ Truthy(scope, "name") =>
          includes(toLowerCase(p.name), toLowerCase(scope.name))

\* C21: whatever the writes in flight, the step that answers a query
\* leaves the catalog as it was, and its response holds, each once, the
\* products the catalog held within the interpreted scope at that one
\* moment, with the sales and revenue of their cost and daily sales at
\* that moment; its totals are the sums over the items of that response.
C21_QueriesReadOnce ==
    [][\A c \in Calls :
          (calls'[c].request.op = "POST /api/query" /\ calls'[c] # calls[c])
          => /\ table' = table
             /\ seq' = seq
             /\ QueryDone(c)' =>
                  LET body == calls'[c].response.body
                      items == body.items
                      days == IF body.interpreted.period = "week"
                              THEN 7 ELSE 1
                      read == {p \in table :
                                  InScope(p, body.interpreted.scope)}
                  IN  /\ Len(items) = Cardinality(read)
                      /\ \A p \in read :
                            \E i \in 1..Len(items) :
                               /\ items[i].id = p.id
                               /\ items[i].name = p.name
                               /\ items[i].type = p.type
                               /\ items[i].cost = p.cost
                               /\ items[i].sales = days * p.sales_per_day
                               /\ items[i].revenue
                                     = days * p.sales_per_day * p.cost
                      /\ \A i \in 1..Len(items) :
                            InScope(items[i], body.interpreted.scope)
                      /\ body.totals.sales
                            = Sum([i \in 1..Len(items) |-> items[i].sales])
                      /\ body.totals.revenue = Sum(ItemRevenue(items))]_vars

\* A query was answered between the INSERT and the read-back of an add in
\* flight: its items include the product just inserted.
C21_Witness ==
    \E c, d \in Calls :
        /\ QueryDone(c)
        /\ calls[d].request.op = "POST /api/products"
        /\ calls[d].pc = "await 2"
        /\ \E i \in 1..Len(calls[c].response.body.items) :
              calls[c].response.body.items[i].id = calls[d].local.lastID

-----------------------------------------------------------------------------
(* C22 *)

\* The call is an add that has been answered.
AddDone(c) ==
    /\ calls[c].request.op = "POST /api/products"
    /\ calls[c].pc = "done"

\* C22 as claimed: whatever the adds in flight, an add is answered with
\* the product its own INSERT made: the id that INSERT gave, with the
\* name, type, category, cost and sales_per_day of its own request.
C22_AddAnswersOwnProduct ==
    \A c \in Calls :
        AddDone(c) =>
            /\ "product" \in DOMAIN calls[c].response.body
            /\ LET product == calls[c].response.body.product
               IN  /\ product.id = calls[c].local.lastID
                   /\ \A k \in Columns :
                         product[k] = calls[c].request.body[k]

-----------------------------------------------------------------------------
(* C26 *)

\* The call is a delete of the id that has been answered.
DeleteDone(c, id) ==
    /\ calls[c].request.op = "DELETE /api/products/:id"
    /\ calls[c].request.id = id
    /\ calls[c].pc = "done"

\* The delete was answered with the product as deleted.
ReportsDeleted(c) ==
    /\ calls[c].response.status = 200
    /\ "deleted_product" \in DOMAIN calls[c].response.body

ReportsNotFound(c) ==
    calls[c].response = [status |-> 404,
                         body |-> [success |-> FALSE,
                                   error |-> "Product not found"]]

\* C26 as claimed: of the deletes of one id in flight together, no two
\* are answered with the product as deleted; once all are answered, one
\* reports the product deleted and each other reports not found.
C26_OneDeleteSucceeds ==
    \A id \in {calls[c].request.id :
                  c \in {d \in Calls :
                            calls[d].request.op = "DELETE /api/products/:id"}} :
        LET done == {c \in Calls : DeleteDone(c, id)}
        IN  /\ Cardinality({c \in done : ReportsDeleted(c)}) <= 1
            /\ \A c \in done : ReportsDeleted(c) \/ ReportsNotFound(c)

-----------------------------------------------------------------------------
(* The numbers of the totals. cost is a REAL column and every JavaScript   *)
(* number is a binary64 number: the revenue of a row and the sum of the    *)
(* revenues are computed in binary64 arithmetic, each operation rounded to *)
(* the nearest binary64 number. The definitions below compute these        *)
(* operations on the numbers that are not negative.                        *)

\* A whole number of any size: its digits to the base 2^13, the lowest
\* first, without leading zeros.
RECURSIVE digits(_)
digits(n) == IF n = 0 THEN <<>> ELSE <<n % 2^13>> \o digits(n \div 2^13)

digit(a, i) == IF i \in 1..Len(a) THEN a[i] ELSE 0

trimmed(a) ==
    LET used == {i \in 1..Len(a) : a[i] # 0}
    IN  IF used = {} THEN <<>>
        ELSE SubSeq(a, 1, CHOOSE i \in used : \A j \in used : j <= i)

\* The digits of the number whose digits, not yet carried, are those of t.
RECURSIVE carried(_, _)
carried(t, carry) ==
    IF t = <<>> THEN digits(carry)
    ELSE <<(Head(t) + carry) % 2^13>>
             \o carried(Tail(t), (Head(t) + carry) \div 2^13)

sum(a, b) ==
    carried([i \in 1..(IF Len(a) < Len(b) THEN Len(b) ELSE Len(a)) |->
                digit(a, i) + digit(b, i)], 0)

\* a * k, for k below 2^13.
product(a, k) == carried([i \in 1..Len(a) |-> a[i] * k], 0)

\* The quotient of a by the small d and what is left of a, the division
\* going from the highest digit down.
RECURSIVE divided(_, _, _)
divided(a, d, left) ==
    IF a = <<>> THEN [quotient |-> <<>>, remainder |-> left]
    ELSE LET lower == divided(SubSeq(a, 1, Len(a) - 1), d,
                              (left * 2^13 + a[Len(a)]) % d)
         IN  [quotient |-> lower.quotient
                               \o <<(left * 2^13 + a[Len(a)]) \div d>>,
              remainder |-> lower.remainder]

\* The number of binary digits of a, and its binary digit of weight 2^i.
bits(a) ==
    IF a = <<>> THEN 0
    ELSE 13 * (Len(a) - 1) + Cardinality({k \in 0..12 : 2^k <= a[Len(a)]})

bit(a, i) == (digit(a, i \div 13 + 1) \div 2^(i % 13)) % 2

\* a * 2^s and a \div 2^s.
shiftedLeft(a, s) == [i \in 1..(s \div 13) |-> 0] \o product(a, 2^(s % 13))

shiftedRight(a, s) ==
    trimmed([j \in 1..(Len(a) - s \div 13) |->
                digit(a, s \div 13 + j) \div 2^(s % 13)
                + (digit(a, s \div 13 + j + 1) % 2^(s % 13))
                      * 2^(13 - (s % 13))])

\* A binary64 number that is not negative: m * 2^e, m of 53 binary digits;
\* the number 0 apart.
Zero64 == [m |-> <<>>, e |-> 0]

\* The binary64 number nearest to magnitude * 2^exponent (to a little
\* more than that when inexact), a tie going to the even m.
round64(magnitude, exponent, inexact) ==
    LET n == trimmed(magnitude)
        drop == bits(n) - 53
        kept == shiftedRight(n, drop)
        up == /\ bit(n, drop - 1) = 1
              /\ \/ inexact
                 \/ \E i \in 0..(drop - 2) : bit(n, i) = 1
                 \/ bit(kept, 0) = 1
        rounded == IF up THEN sum(kept, <<1>>) ELSE kept
    IN  IF n = <<>> THEN Zero64
        ELSE IF drop <= 0
        THEN [m |-> shiftedLeft(n, -drop), e |-> exponent + drop]
        ELSE IF bits(rounded) > 53
        THEN [m |-> shiftedRight(rounded, 1), e |-> exponent + drop + 1]
        ELSE [m |-> rounded, e |-> exponent + drop]

\* The number a literal of cents hundredths denotes: 12.99 for 1299.
number64(cents) ==
    LET hundredths == divided([i \in 1..5 |-> 0] \o digits(cents), 100, 0)
    IN  round64(hundredths.quotient, -65, hundredths.remainder # 0)

\* sales * cost, for sales a whole number below 2^13.
times64(sales, cost) ==
    IF sales = 0 \/ cost = Zero64 THEN Zero64
    ELSE round64(product(cost.m, sales), cost.e, FALSE)

\* x + y.
plus64(x, y) ==
    IF x = Zero64 THEN y
    ELSE IF y = Zero64 THEN x
    ELSE IF x.e < y.e
    THEN round64(sum(x.m, shiftedLeft(y.m, y.e - x.e)), x.e, FALSE)
    ELSE round64(sum(shiftedLeft(x.m, x.e - y.e), y.m), y.e, FALSE)

\* values.reduce((s, v) => s + v, 0), in binary64.
RECURSIVE reduce64(_)
reduce64(values) ==
    IF values = <<>> THEN Zero64
    ELSE plus64(reduce64(SubSeq(values, 1, Len(values) - 1)),
                values[Len(values)])

\* (sales_per_day * 7 * cost) as weekly_revenue, of a row of the result.
weeklyRevenue64(row) == times64(row.sales_per_day * 7, number64(row.cost))

\* sales.reduce((sum, item) => sum + item.weekly_revenue, 0)
totalWeeklyRevenue64(sales) ==
    reduce64([i \in 1..Len(sales) |-> weeklyRevenue64(sales[i])])

\* const revenue = sales * p.cost, of a line item.
revenue64(item) == times64(item.sales, number64(item.cost))

\* results.reduce((s, r) => s + r.revenue, 0)
totalRevenue64(results) ==
    reduce64([i \in 1..Len(results) |-> revenue64(results[i])])

-----------------------------------------------------------------------------
(* The weekly-sales specification: on the seeded catalog, products are     *)
(* added and deleted, and the weekly sales of a type are asked for through *)
(* GET /api/sales/weekly, through the tool get_weekly_sales and through a  *)
(* question to POST /api/query, one request handled after the other.       *)

WeeklyAddBodies ==
    {[name |-> "Premium Conditioner", type |-> "hair",
      category |-> "conditioner", cost |-> 1999, sales_per_day |-> 9],
     [name |-> "Night Cream", type |-> "skin", category |-> "moisturizer",
      cost |-> 1599, sales_per_day |-> 20]}

WeeklyQuestion ==
    [type \in {"hair", "perfume", "skin"} |->
        Str("weekly sales for " \o type)]

weeklyInterpreted ==
    [type \in DOMAIN WeeklyQuestion |-> parseSalesQuery(WeeklyQuestion[type])]

NextWeekly ==
    \/ \E body \in WeeklyAddBodies : HttpAddProduct(body)
    \/ DeleteListed
    \/ \E type \in DOMAIN WeeklyQuestion :
          \/ HttpWeeklySales(Str(type), Undefined)
          \/ McpCallTool("get_weekly_sales", [type |-> type])
          \/ HttpQuery(WeeklyQuestion[type], weeklyInterpreted[type])

SpecWeekly == InitSeeded /\ [][NextWeekly]_vars

-----------------------------------------------------------------------------
(* C27 *)

\* The weekly-sales operation of either front-end has answered for the
\* type.
WeeklyAnswered(type) ==
    \/ /\ request.op = "GET /api/sales/weekly"
       /\ request.type = Str(type)
       /\ request.product_id = Undefined
       /\ response.status = 200
    \/ /\ request.op = "tools/call"
       /\ request.name = "get_weekly_sales"
       /\ request.arguments = [type |-> type]
       /\ ~response.isError

\* What it answered: the body of the response or the content of the reply.
WeeklyAnswer ==
    IF request.op = "tools/call" THEN response.content ELSE response.body

\* A question interpreted as the week's sales of the type has been
\* answered.
WeekQueryAnswered(type) ==
    /\ request.op = "POST /api/query"
    /\ response.status = 200
    /\ response.body.interpreted =
           [period |-> "week", scope |-> [type |-> type]]

\* The two answers select the same products and report the same weekly
\* sales and weekly revenue of each.
SameProducts(weekly, query) ==
    /\ {weekly.products[i].id : i \in 1..Len(weekly.products)}
           = {query.items[j].id : j \in 1..Len(query.items)}
    /\ \A i \in 1..Len(weekly.products), j \in 1..Len(query.items) :
          weekly.products[i].id = query.items[j].id
              => /\ weekly.products[i].weekly_sales = query.items[j].sales
                 /\ weeklyRevenue64(weekly.products[i])
                        = revenue64(query.items[j])

\* The two answers report the same two totals, the revenue being the
\* number each handler computes from its rows in their order.
SameTotals(weekly, query) ==
    /\ weekly.total_weekly_sales = query.totals.sales
    /\ totalWeeklyRevenue64(weekly.products) = totalRevenue64(query.items)

\* The step is from one of the two answers for the type to the other, on
\* the one catalog.
WeeklyThenQuery(type) == WeeklyAnswered(type) /\ WeekQueryAnswered(type)'

QueryThenWeekly(type) == WeekQueryAnswered(type) /\ WeeklyAnswered(type)'

\* C27 as claimed: the weekly-sales operation called with a type and a
\* question interpreted as the week's sales of that type, answered one
\* after the other on the same catalog, select the same products and
\* report the same weekly sales and weekly revenue of each product and
\* the same total sales and total revenue.
C27_WeeklySalesEqualsQuery ==
    [][\A type \in DOMAIN WeeklyQuestion :
          /\ WeeklyThenQuery(type)
                => /\ SameProducts(WeeklyAnswer, response'.body)
                   /\ SameTotals(WeeklyAnswer, response'.body)
          /\ QueryThenWeekly(type)
                => /\ SameProducts(WeeklyAnswer', response.body)
                   /\ SameTotals(WeeklyAnswer', response.body)]_vars

\* What holds of the two answers: the same products, the same weekly
\* sales and weekly revenue of each, and the same total sales.
C27_SameProductsAndTotalSales ==
    [][\A type \in DOMAIN WeeklyQuestion :
          /\ WeeklyThenQuery(type)
                => /\ SameProducts(WeeklyAnswer, response'.body)
                   /\ WeeklyAnswer.total_weekly_sales
                          = response'.body.totals.sales
          /\ QueryThenWeekly(type)
                => /\ SameProducts(WeeklyAnswer', response.body)
                   /\ WeeklyAnswer'.total_weekly_sales
                          = response.body.totals.sales]_vars

\* Both answers have been given for a type of three products.
C27_Witness ==
    \E type \in DOMAIN WeeklyQuestion :
        /\ WeekQueryAnswered(type)
        /\ Len(response.body.items) = 3

=============================================================================
